---- MODULE Spec2Model ----
(***************************************************************************)
(* Tunnel agent: stream registry (StreamManager), per-stream forwarder     *)
(* goroutines (cmd/agent handleStreamFrame), the Connector with its        *)
(* bounded send queue and write loops, and the Dispatcher read loop.       *)
(***************************************************************************)
EXTENDS Integers, Sequences, FiniteSets, TLC

\* ------------------------------------------------------------------ bounds
MaxID == 3            \* stream ids known to the registry: 1..MaxID
MaxPeerID == 1        \* stream ids the peer uses on the wire: 1..MaxPeerID
MaxInst == 2          \* Stream objects created in one run
MaxConns == 2         \* transports dialled in one run
SendQueueCap == 2     \* stands for cap(sendCh) = 100
DataOutCap == 1       \* stands for cap(dataOut) = 100
MaxSends == 3         \* frames offered by the client task in one run
NTasks == 3           \* concurrent CreateStream callers
MaxFails == 7         \* failed dials in one Connect call
MaxRetriesN == 2      \* positive max_retries settings tried: 1..MaxRetriesN
MaxBytes == 3         \* bytes enqueued on the stream that is read
MaxChunk == 2         \* length of a payload handed to DataOut()
MaxBuf == 2           \* len(p) of a Read call: 1..MaxBuf
MaxLoops == 3         \* read loops spawned by direct Start calls
MaxFrames == 3        \* frames and read errors met by the read loop in one run
HeaderSize == 2       \* stands for v1.HeaderSize
MaxFrameSize == 4     \* stands for v1.MaxFrameSize
MaxBeats == 2         \* heartbeat frames passed to SendFrame in one run
MaxBeatLoops == 2     \* heartbeat loops started in one run
MaxHost == 3          \* characters of a Host header
MaxPath == 2          \* characters of a tunneled path

IDs == 1..MaxID
PeerIDs == 1..MaxPeerID
StreamIDControl == 0

VARIABLES
  streams,      \* StreamManager.streams: id -> index into inst, 0 = absent
  inst,         \* every Stream object allocated so far
  cbCreated,    \* onStreamCreated invocations per id
  cbClosed,     \* onStreamClosed invocations per id
  mStreams,     \* metrics: streams_total/active/completed/failed
  hLocal,       \* health check "local_service"
  fwd,          \* forwarder goroutine of inst[i]
  rl,           \* dispatcher read-loop goroutines
  dConn,        \* Dispatcher.conn
  dRunning,     \* Dispatcher.running
  dCtxDone,     \* Dispatcher.ctx cancelled
  panicked,     \* a goroutine panicked (send on closed channel): the process is gone
  conn,         \* Connector.conn: 0 = nil, k = k-th dialled transport
  connected,    \* Connector.connected
  sendCh,       \* Connector.sendCh
  ctxDone,      \* Connector.ctx cancelled
  tr,           \* state of every dialled transport
  wl,           \* writeLoop goroutine started for transport k
  wire,         \* tagged payloads flushed to transport k, in write order
  nDisc,        \* onDisconnected invocations, by the transport torn down
  mConn,        \* metrics: connections_total/active
  hConnection,  \* health check "connection"
  sup,          \* the task calling Connect/Reconnect/Disconnect/Close
  cli,          \* a task calling SendFrame directly
  ct,           \* tasks calling CreateStream concurrently
  call,         \* the last call made on the registry by a direct caller
  rt,           \* connectWithRetry: max_retries and the locals of the current call
  rd,           \* the task reading a Stream, and the bytes handed to that Stream
  fr,           \* the frame the read loop is decoding, and the frame metrics
  au,           \* Authenticator.agentID and the last HandleAuthResponse call
  hb,           \* Heartbeat: running, ctx, its loops and what they sent
  sd,           \* main: its position in the shutdown sequence
  lu            \* LocalForwarder: the last two base URL choices, the last URL built

regVars  == <<streams, inst, cbCreated, cbClosed, mStreams>>
fwdVars  == <<fwd, hLocal>>
dispVars == <<rl, dConn, dRunning, dCtxDone, panicked>>
connVars == <<conn, connected, tr, nDisc, mConn, hConnection>>
wrVars   == <<wl, wire>>
obs      == <<fr, au, hb, sd, lu>>
callers  == <<cli, ct, call, rt, rd, obs>>
vars == <<streams, inst, cbCreated, cbClosed, mStreams, hLocal, fwd, rl,
          dConn, dRunning, dCtxDone, panicked, conn, connected, sendCh,
          ctxDone, tr, wl, wire, nDisc, mConn, hConnection, sup, cli, ct,
          call, rt, rd, fr, au, hb, sd, lu>>

\* ------------------------------------------------------------------ frames
\* payload is an opaque tag; 0 where the content plays no role
Frame(t, fl, sid, p) == [type |-> t, flags |-> fl, sid |-> sid, payload |-> p]

IsControlFrame(f) == f.sid = StreamIDControl
IsEndStream(f) == f.flags = "EndStream"

\* ------------------------------------------------------- stream registry
\* closeCh and dataOutClosed count the close() calls made on the channel:
\* Go panics on the second close of a channel
NewStream(id) ==
  [ID |-> id, State |-> "Init", closeCh |-> 0,
   dataOut |-> <<>>, dataOutClosed |-> 0]

Exists(id) == streams[id] # 0

\* GetStream: the registered Stream of id, 0 when there is none
GetStream(id) == streams[id]

\* CreateStream without the lookup of the id
CreateStreamResAlways(id) == "nil"

CreateStreamRes(id) == IF Exists(id) THEN "ErrStreamAlreadyExists" ELSE "nil"

OnStreamCreated(id) ==
  /\ cbCreated' = [cbCreated EXCEPT ![id] = @ + 1]
  /\ mStreams' = [mStreams EXCEPT !.total = @ + 1, !.active = @ + 1]

\* CreateStream that installs a new Stream over a registered one
CreateStreamReplace(id) ==
  /\ inst' = Append(inst, NewStream(id))
  /\ streams' = [streams EXCEPT ![id] = Len(inst) + 1]
  /\ OnStreamCreated(id)
  /\ UNCHANGED cbClosed

CreateStream(id) ==
  IF Exists(id)
  THEN UNCHANGED regVars
  ELSE /\ inst' = Append(inst, NewStream(id))
       /\ streams' = [streams EXCEPT ![id] = Len(inst) + 1]
       /\ OnStreamCreated(id)
       /\ UNCHANGED cbClosed

CloseStreamRes(id) == IF Exists(id) THEN "nil" ELSE "ErrStreamNotFound"

OnStreamClosed(id) ==
  /\ cbClosed' = [cbClosed EXCEPT ![id] = @ + 1]
  /\ mStreams' = [mStreams EXCEPT !.active = @ - 1, !.completed = @ + 1]

\* CloseStream that leaves the id in the registry
CloseStreamKeep(id) ==
  IF ~Exists(id)
  THEN UNCHANGED regVars
  ELSE /\ inst' = [inst EXCEPT ![streams[id]].State = "Closed",
                               ![streams[id]].closeCh = @ + 1,
                               ![streams[id]].dataOutClosed = @ + 1]
       /\ OnStreamClosed(id)
       /\ UNCHANGED <<streams, cbCreated>>

CloseStream(id) ==
  IF ~Exists(id)
  THEN UNCHANGED regVars
  ELSE /\ inst' = [inst EXCEPT ![streams[id]].State = "Closed",
                               ![streams[id]].closeCh = @ + 1,
                               ![streams[id]].dataOutClosed = @ + 1]
       /\ streams' = [streams EXCEPT ![id] = 0]
       /\ OnStreamClosed(id)
       /\ UNCHANGED cbCreated


\* ------------------------------------------------------------- connector
\* SendFrame with a blocking-free enqueue that never finds the queue full
SendFrameResNoCap(c, q) == IF ~c THEN "ErrNotConnected" ELSE "nil"

SendFrameRes(c, q) ==
  IF ~c THEN "ErrNotConnected"
  ELSE IF Len(q) < SendQueueCap THEN "nil" ELSE "send queue full"

\* the send queue after SendFrame(f): a non-blocking enqueue
SendFrameQ(c, q, f) == IF SendFrameRes(c, q) = "nil" THEN Append(q, f) ELSE q

\* main.go SetOnDisconnected: dispatcher.Stop()
OnDisconnected ==
  /\ nDisc' = [nDisc EXCEPT ![conn] = @ + 1]
  /\ dCtxDone' = TRUE
  /\ dRunning' = FALSE

\* Disconnect that keeps c.conn after closing it
DisconnectKeep(h) ==
  IF conn = 0
  THEN /\ hConnection' = h
       /\ UNCHANGED <<conn, connected, tr, mConn, nDisc, dCtxDone, dRunning>>
  ELSE /\ tr' = [tr EXCEPT ![conn] = "closed"]
       /\ connected' = FALSE
       /\ mConn' = [mConn EXCEPT !.active = @ - 1]
       /\ hConnection' = "unhealthy"
       /\ OnDisconnected
       /\ UNCHANGED conn

\* Disconnect; h is the value of the connection health check at the call
Disconnect(h) ==
  IF conn = 0
  THEN /\ hConnection' = h
       /\ UNCHANGED <<conn, connected, tr, mConn, nDisc, dCtxDone, dRunning>>
  ELSE /\ tr' = [tr EXCEPT ![conn] = "closed"]
       /\ conn' = 0
       /\ connected' = FALSE
       /\ mConn' = [mConn EXCEPT !.active = @ - 1]
       /\ hConnection' = "unhealthy"
       /\ OnDisconnected

AuthFrame == Frame("Auth", "None", StreamIDControl, 0)

NoFrame == Frame("None", "None", 0, 0)

NewReadLoop == [pc |-> "top", c |-> 0, f |-> NoFrame, s |-> 0]

\* main.go SetOnConnected, run with the connection k just installed
OnConnected(k) ==
  /\ dConn' = k
  /\ IF dRunning
     THEN UNCHANGED <<dRunning, rl, sendCh>>
     ELSE /\ dRunning' = TRUE
          /\ rl' = Append(rl, NewReadLoop)
          /\ sendCh' = SendFrameQ(TRUE, sendCh, AuthFrame)

\* connectWithRetry up to the first dial: the ctx check at the loop head
ConnectBegin ==
  IF ctxDone
  THEN sup' = [pc |-> "idle", err |-> "ctx"]
  ELSE sup' = [pc |-> "dial", err |-> "nil"]

SupConnect ==
  /\ ~panicked
  /\ sup.pc = "idle"
  /\ conn = 0
  /\ ConnectBegin
  /\ UNCHANGED <<regVars, fwdVars, dispVars, connVars, wrVars, sendCh, ctxDone,
                 callers>>

SupReconnect ==
  /\ ~panicked
  /\ sup.pc = "idle"
  /\ Disconnect(hConnection)
  /\ ConnectBegin
  /\ UNCHANGED <<regVars, fwdVars, rl, dConn, panicked, wrVars, sendCh,
                 ctxDone, callers>>

\* Disconnect returns what conn.Close() returned, nil without a transport
DisconnectRes == IF conn # 0 /\ tr[conn] = "broken" THEN "close error" ELSE "nil"

SupDisconnect ==
  /\ ~panicked
  /\ sup.pc = "idle"
  /\ Disconnect(hConnection)
  /\ sup' = [pc |-> "idle", err |-> DisconnectRes]
  /\ UNCHANGED <<regVars, fwdVars, rl, dConn, panicked, wrVars, sendCh,
                 ctxDone, callers>>

\* cmd/agent main: the one Connect call made at startup
MainConnect ==
  /\ mConn.total = 0
  /\ SupConnect

\* a failed dial, the backoff wait and the next ctx check
DialFail ==
  /\ ~panicked
  /\ sup.pc = "dial"
  /\ IF ctxDone
     THEN sup' = [pc |-> "idle", err |-> "ctx"]
     ELSE UNCHANGED sup
  /\ UNCHANGED <<regVars, fwdVars, dispVars, connVars, wrVars, sendCh, ctxDone,
                 callers>>

\* a successful dial: setConnection, metrics, health, go writeLoop, onConnected
Establish ==
  /\ Len(tr) < MaxConns
  /\ LET k == Len(tr) + 1 IN
     /\ tr' = Append(tr, "open")
     /\ conn' = k
     /\ connected' = TRUE
     /\ mConn' = [total |-> mConn.total + 1, active |-> mConn.active + 1]
     /\ hConnection' = "healthy"
     /\ wl' = Append(wl, [pc |-> "run", buf |-> <<>>])
     /\ wire' = Append(wire, <<>>)
     /\ nDisc' = Append(nDisc, 0)
     /\ OnConnected(k)

DialOk ==
  /\ ~panicked
  /\ sup.pc = "dial"
  /\ Establish
  /\ sup' = [pc |-> "idle", err |-> "nil"]
  /\ UNCHANGED <<regVars, fwdVars, dCtxDone, panicked, ctxDone, callers>>

\* ------------------------------------------- connectWithRetry in detail
\* NewConnector: durations in seconds
RetryInterval == 1
BackoffFactor == 2
MaxBackoff == 60
MaxConsecutiveErrors == 5

Min(a, b) == IF a < b THEN a ELSE b

\* locals that keep the backoff of the call before
RetryLocalsKeep(r) ==
  [r EXCEPT !.retries = 0, !.consecutiveErrors = 0, !.fails = 0, !.waits = <<>>]

\* the locals of connectWithRetry at entry; reached keeps, for the next call,
\* the backoff the call before had arrived at
RetryLocals(r) ==
  [r EXCEPT !.backoff = RetryInterval, !.retries = 0, !.consecutiveErrors = 0,
            !.fails = 0, !.waits = <<>>]

\* backoff = backoff * backoffFactor * 1.5, at most 2 * maxBackoff, once
\* consecutiveErrors has reached maxConsecutiveErrors
AggressiveNever(b, ce) == b

Aggressive(b, ce) ==
  IF ce >= MaxConsecutiveErrors
  THEN Min((b * BackoffFactor * 3) \div 2, MaxBackoff * 2)
  ELSE b

\* after the wait: backoff = backoff * backoffFactor, at most maxBackoff
NextBackoff(b) == Min(b * BackoffFactor, MaxBackoff)

MaxRetriesExceeded(mr, retries) == mr > 0 /\ retries >= mr

\* Connect: the locals, then the ctx check at the loop head
RetryConnect ==
  /\ ~panicked
  /\ sup.pc = "idle"
  /\ conn = 0
  /\ ConnectBegin
  /\ rt' = RetryLocals(rt)
  /\ UNCHANGED <<regVars, fwdVars, dispVars, connVars, wrVars, sendCh, ctxDone,
                 cli, ct, call, rd, obs>>

\* Reconnect: Disconnect, then connectWithRetry
RetryReconnect ==
  /\ ~panicked
  /\ sup.pc = "idle"
  /\ Disconnect(hConnection)
  /\ ConnectBegin
  /\ rt' = RetryLocals(rt)
  /\ UNCHANGED <<regVars, fwdVars, rl, dConn, panicked, wrVars, sendCh,
                 ctxDone, cli, ct, call, rd, obs>>

\* a failed dial: the error counter, the aggressive backoff, the max_retries
\* check, retries++ and the start of the wait of length backoff
RetryDialFail ==
  /\ ~panicked
  /\ sup.pc = "dial"
  /\ rt.fails < MaxFails
  /\ LET ce == rt.consecutiveErrors + 1
         b == Aggressive(rt.backoff, ce)
     IN IF MaxRetriesExceeded(rt.maxRetries, rt.retries)
        THEN /\ sup' = [pc |-> "idle", err |-> "max retries exceeded"]
             /\ rt' = [rt EXCEPT !.consecutiveErrors = ce, !.backoff = b,
                                 !.fails = @ + 1]
        ELSE /\ sup' = [pc |-> "wait", err |-> "nil"]
             /\ rt' = [rt EXCEPT !.consecutiveErrors = ce, !.backoff = b,
                                 !.fails = @ + 1, !.retries = @ + 1,
                                 !.waits = Append(@, b)]
  /\ UNCHANGED <<regVars, fwdVars, dispVars, connVars, wrVars, sendCh, ctxDone,
                 cli, ct, call, rd, obs>>

\* the wait before the retry: the timer fires (backoff grows, loop head), or
\* the cancelled ctx ends the call
RetryWait(timer) ==
  /\ ~panicked
  /\ sup.pc = "wait"
  /\ timer \/ ctxDone
  /\ rt' = IF timer THEN [rt EXCEPT !.backoff = NextBackoff(@)] ELSE rt
  /\ IF ctxDone
     THEN sup' = [pc |-> "idle", err |-> "ctx"]
     ELSE sup' = [pc |-> "dial", err |-> "nil"]
  /\ UNCHANGED <<regVars, fwdVars, dispVars, connVars, wrVars, sendCh, ctxDone,
                 cli, ct, call, rd, obs>>

\* a successful dial: consecutiveErrors = 0, the connection is installed
RetryDialOk ==
  /\ ~panicked
  /\ sup.pc = "dial"
  /\ Establish
  /\ sup' = [pc |-> "idle", err |-> "nil"]
  /\ rt' = [rt EXCEPT !.consecutiveErrors = 0, !.reached = rt.backoff]
  /\ UNCHANGED <<regVars, fwdVars, dCtxDone, panicked, ctxDone, cli, ct, call, rd, obs>>

\* Close: cancel the connector's context, then Disconnect
ConnClose ==
  /\ ~panicked
  /\ ctxDone' = TRUE
  /\ Disconnect(hConnection)
  /\ UNCHANGED <<regVars, fwdVars, rl, dConn, panicked, wrVars, sendCh, sup,
                 callers>>

\* the peer or the network breaks transport k
TrBreak(k) ==
  /\ k \in 1..Len(tr)
  /\ tr[k] = "open"
  /\ tr' = [tr EXCEPT ![k] = "broken"]
  /\ UNCHANGED <<regVars, fwdVars, dispVars, conn, connected, nDisc, mConn,
                 hConnection, wrVars, sendCh, ctxDone, sup, callers>>

\* --------------------------------------------------------------- writeLoop
\* the tagged payloads of the frames of q, in order
Payloads(q) == SelectSeq([i \in 1..Len(q) |-> q[i].payload], LAMBDA p : p # 0)

\* w.Flush() of writer k holding b: written out, or an I/O error that ends
\* the loop after c.Disconnect()
Flush(k, b) ==
  IF tr[k] = "open"
  THEN /\ wire' = [wire EXCEPT ![k] = @ \o Payloads(b)]
       /\ wl' = [wl EXCEPT ![k].buf = <<>>]
       /\ UNCHANGED <<connVars, dCtxDone, dRunning>>
  ELSE /\ wl' = [wl EXCEPT ![k] = [pc |-> "done", buf |-> <<>>]]
       /\ Disconnect(hConnection)
       /\ UNCHANGED wire

\* a receive that takes the newest frame of the queue
WLSendNewest(k, full) ==
  /\ ~panicked
  /\ k \in 1..Len(wl)
  /\ wl[k].pc = "run"
  /\ sendCh # <<>>
  /\ sendCh' = SubSeq(sendCh, 1, Len(sendCh) - 1)
  /\ LET b == Append(wl[k].buf, sendCh[Len(sendCh)]) IN
     IF full \/ Len(sendCh) = 1
     THEN Flush(k, b)
     ELSE /\ wl' = [wl EXCEPT ![k].buf = b]
          /\ UNCHANGED <<connVars, dCtxDone, dRunning, wire>>
  /\ UNCHANGED <<regVars, fwdVars, rl, dConn, panicked, ctxDone, sup, callers>>

\* case frame := <-c.sendCh: Encode into the buffered writer; flush when the
\* 4KB buffer fills (full) or the queue is now empty
WLSend(k, full) ==
  /\ ~panicked
  /\ k \in 1..Len(wl)
  /\ wl[k].pc = "run"
  /\ sendCh # <<>>
  /\ sendCh' = Tail(sendCh)
  /\ LET b == Append(wl[k].buf, Head(sendCh)) IN
     IF full \/ Tail(sendCh) = <<>>
     THEN Flush(k, b)
     ELSE /\ wl' = [wl EXCEPT ![k].buf = b]
          /\ UNCHANGED <<connVars, dCtxDone, dRunning, wire>>
  /\ UNCHANGED <<regVars, fwdVars, rl, dConn, panicked, ctxDone, sup, callers>>

\* case <-timer.C with bytes buffered (an empty buffer flushes to nothing)
WLTimer(k) ==
  /\ ~panicked
  /\ k \in 1..Len(wl)
  /\ wl[k].pc = "run"
  /\ wl[k].buf # <<>>
  /\ Flush(k, wl[k].buf)
  /\ UNCHANGED <<regVars, fwdVars, rl, dConn, panicked, sendCh, ctxDone, sup,
                 callers>>

\* case <-ctx.Done()
WLCtxDone(k) ==
  /\ ~panicked
  /\ k \in 1..Len(wl)
  /\ wl[k].pc = "run"
  /\ ctxDone
  /\ wl' = [wl EXCEPT ![k] = [pc |-> "done", buf |-> <<>>]]
  /\ UNCHANGED <<regVars, fwdVars, dispVars, connVars, wire, sendCh, ctxDone,
                 sup, callers>>

\* a task calls SendFrame with its n-th frame, tagged n: the read of
\* c.connected under the lock
CliSendFrame ==
  /\ cli.pc = "idle"
  /\ cli.n < MaxSends
  /\ IF SendFrameRes(connected, sendCh) = "ErrNotConnected"
     THEN cli' = [n |-> cli.n + 1, pc |-> "idle", ret |-> "ErrNotConnected"]
     ELSE cli' = [cli EXCEPT !.pc = "select"]
  /\ UNCHANGED <<regVars, fwdVars, dispVars, connVars, wrVars, sendCh, ctxDone,
                 sup, ct, call, rt, rd, obs>>

\* the select of SendFrame: enqueue, or default when the queue is full
CliSelect ==
  /\ cli.pc = "select"
  /\ LET f == Frame("Data", "None", 1, cli.n + 1) IN
     /\ sendCh' = SendFrameQ(TRUE, sendCh, f)
     /\ cli' = [n |-> cli.n + 1, pc |-> "idle",
                ret |-> SendFrameRes(TRUE, sendCh)]
  /\ UNCHANGED <<regVars, fwdVars, dispVars, connVars, wrVars, ctxDone, sup,
                 ct, call, rt, rd, obs>>

\* ------------------------------------------------- dispatcher read loop
ReadLoopTo(j, pc, c, f, s) ==
  rl' = [rl EXCEPT ![j] = [pc |-> pc, c |-> c, f |-> f, s |-> s]]

Reading(j) ==
  /\ ~panicked
  /\ j \in 1..Len(rl)
  /\ rl[j].pc = "read"
  /\ tr[rl[j].c] = "open"

\* loop head: ctx check, then sleep while no connection is installed, else
\* block in the read on the installed connection
RLTop(j) ==
  /\ ~panicked
  /\ j \in 1..Len(rl)
  /\ rl[j].pc = "top"
  /\ IF dCtxDone
     THEN ReadLoopTo(j, "done", 0, NoFrame, 0)
     ELSE IF dConn = 0
          THEN ReadLoopTo(j, "sleep", 0, NoFrame, 0)
          ELSE ReadLoopTo(j, "read", dConn, NoFrame, 0)
  /\ UNCHANGED <<regVars, fwdVars, dConn, dRunning, dCtxDone, panicked, connVars,
                 wrVars, sendCh, ctxDone, sup, callers>>

\* conn == nil: time.Sleep(100ms) is over, continue
RLSleep(j) ==
  /\ ~panicked
  /\ j \in 1..Len(rl)
  /\ rl[j].pc = "sleep"
  /\ ReadLoopTo(j, "top", 0, NoFrame, 0)
  /\ UNCHANGED <<regVars, fwdVars, dConn, dRunning, dCtxDone, panicked, connVars,
                 wrVars, sendCh, ctxDone, sup, callers>>

\* the read deadline passes with no frame: continue
RLTimeout(j) ==
  /\ Reading(j)
  /\ ReadLoopTo(j, "top", 0, NoFrame, 0)
  /\ UNCHANGED <<regVars, fwdVars, dConn, dRunning, dCtxDone, panicked, connVars,
                 wrVars, sendCh, ctxDone, sup, callers>>

\* EOF or a read error on a transport that is closed or broken: return
RLEnd(j) ==
  /\ ~panicked
  /\ j \in 1..Len(rl)
  /\ rl[j].pc = "read"
  /\ tr[rl[j].c] # "open"
  /\ ReadLoopTo(j, "done", 0, NoFrame, 0)
  /\ UNCHANGED <<regVars, fwdVars, dConn, dRunning, dCtxDone, panicked, connVars,
                 wrVars, sendCh, ctxDone, sup, callers>>

\* a frame of invalid length or one that ParseFrame rejects, read from a
\* transport in good order: return
RLDecodeError(j) ==
  /\ Reading(j)
  /\ ReadLoopTo(j, "done", 0, NoFrame, 0)
  /\ UNCHANGED <<regVars, fwdVars, dConn, dRunning, dCtxDone, panicked, connVars,
                 wrVars, sendCh, ctxDone, sup, callers>>

\* a control frame of type Close is read and handed to the control handler
RLControlClose(j) ==
  /\ Reading(j)
  /\ ReadLoopTo(j, "close", rl[j].c, Frame("Close", "None", StreamIDControl, 0), 0)
  /\ UNCHANGED <<regVars, fwdVars, dConn, dRunning, dCtxDone, panicked, connVars,
                 wrVars, sendCh, ctxDone, sup, callers>>

\* control handler, FrameClose: health update, connector.Disconnect()
ControlClose(j) ==
  /\ ~panicked
  /\ j \in 1..Len(rl)
  /\ rl[j].pc = "close"
  /\ Disconnect("unhealthy")
  /\ ReadLoopTo(j, "top", 0, NoFrame, 0)
  /\ UNCHANGED <<regVars, fwdVars, dConn, panicked, wrVars, sendCh, ctxDone,
                 sup, callers>>

\* emitted: the flags of the frames this goroutine got into the send queue
NewForwarder(id) ==
  [pc |-> "forward", id |-> id, failed |-> FALSE, emitted |-> <<>>,
   closeRes |-> "none"]

\* handleStreamFrame, FrameOpenStream: CreateStream, go forwarder
RLOpenStream(j, id) ==
  /\ Reading(j)
  /\ Exists(id) \/ Len(inst) < MaxInst
  /\ CreateStream(id)
  /\ fwd' = IF Exists(id) THEN fwd ELSE Append(fwd, NewForwarder(id))
  /\ ReadLoopTo(j, "top", 0, NoFrame, 0)
  /\ UNCHANGED <<hLocal, dConn, dRunning, dCtxDone, panicked, connVars, wrVars,
                 sendCh, ctxDone, sup, callers>>

\* handleStreamFrame, FrameData: GetStream, then the select on dataOut
RLData(j, id, fl) ==
  /\ Reading(j)
  /\ IF GetStream(id) = 0
     THEN ReadLoopTo(j, "top", 0, NoFrame, 0)
     ELSE ReadLoopTo(j, "data", rl[j].c, Frame("Data", fl, id, 0), GetStream(id))
  /\ UNCHANGED <<regVars, fwdVars, dConn, dRunning, dCtxDone, panicked, connVars,
                 wrVars, sendCh, ctxDone, sup, callers>>

\* select case stream.DataOut() <- frame.Payload, on an open channel with room
RLDeliver(j) ==
  /\ ~panicked
  /\ j \in 1..Len(rl)
  /\ rl[j].pc = "data"
  /\ inst[rl[j].s].dataOutClosed = 0
  /\ Len(inst[rl[j].s].dataOut) < DataOutCap
  /\ inst' = [inst EXCEPT ![rl[j].s].dataOut = Append(@, rl[j].f.payload)]
  /\ IF IsEndStream(rl[j].f)
     THEN ReadLoopTo(j, "end", rl[j].c, rl[j].f, rl[j].s)
     ELSE ReadLoopTo(j, "top", 0, NoFrame, 0)
  /\ UNCHANGED <<streams, cbCreated, cbClosed, mStreams, fwdVars, dConn,
                 dRunning, dCtxDone, panicked, connVars, wrVars, sendCh,
                 ctxDone, sup, callers>>

\* the select once CloseStream has closed closeCh and dataOut: both cases are
\* ready; the send case panics (send on closed channel), the other returns
RLDeliverClosed(j, sendCase) ==
  /\ ~panicked
  /\ j \in 1..Len(rl)
  /\ rl[j].pc = "data"
  /\ inst[rl[j].s].closeCh > 0
  /\ panicked' = (sendCase /\ inst[rl[j].s].dataOutClosed > 0)
  /\ ReadLoopTo(j, "top", 0, NoFrame, 0)
  /\ UNCHANGED <<regVars, fwdVars, dConn, dRunning, dCtxDone, connVars, wrVars,
                 sendCh, ctxDone, sup, callers>>

\* after the delivery of a frame with EndStream: CloseStream
RLEndStream(j) ==
  /\ ~panicked
  /\ j \in 1..Len(rl)
  /\ rl[j].pc = "end"
  /\ CloseStream(rl[j].f.sid)
  /\ ReadLoopTo(j, "top", 0, NoFrame, 0)
  /\ UNCHANGED <<fwdVars, dConn, dRunning, dCtxDone, panicked, connVars, wrVars,
                 sendCh, ctxDone, sup, callers>>

\* handleStreamFrame, FrameClose with a stream id: CloseStream
RLStreamClose(j, id) ==
  /\ Reading(j)
  /\ CloseStream(id)
  /\ ReadLoopTo(j, "top", 0, NoFrame, 0)
  /\ UNCHANGED <<fwdVars, dConn, dRunning, dCtxDone, panicked, connVars, wrVars,
                 sendCh, ctxDone, sup, callers>>

\* ------------------------------------------- direct calls of the dispatcher
DispCall(op, err) == [op |-> op, id |-> 0, err |-> err, s |-> 0]

StartRes == IF dRunning THEN "ErrAlreadyRunning" ELSE "nil"

\* Dispatcher.Start
DispStart ==
  /\ ~panicked
  /\ dRunning \/ Len(rl) < MaxLoops
  /\ call' = DispCall("Start", StartRes)
  /\ IF dRunning
     THEN UNCHANGED <<dRunning, rl>>
     ELSE /\ dRunning' = TRUE
          /\ rl' = Append(rl, NewReadLoop)
  /\ UNCHANGED <<regVars, fwdVars, dConn, dCtxDone, panicked, connVars, wrVars,
                 sendCh, ctxDone, sup, cli, ct, rt, rd, obs>>

\* Dispatcher.Stop: cancel, running = false
DispStop ==
  /\ ~panicked
  /\ dCtxDone' = TRUE
  /\ dRunning' = FALSE
  /\ call' = DispCall("Stop", "nil")
  /\ UNCHANGED <<regVars, fwdVars, rl, dConn, panicked, connVars, wrVars,
                 sendCh, ctxDone, sup, cli, ct, rt, rd, obs>>

\* ------------------------------------------------- forwarder goroutine
Forwarding(i, pc) ==
  /\ ~panicked
  /\ i \in 1..Len(fwd)
  /\ fwd[i].pc = pc

\* ForwardRequest returns: an error (metrics, health Degraded) or a response
FwdForward(i, ok) ==
  /\ Forwarding(i, "forward")
  /\ IF ok
     THEN /\ hLocal' = "healthy"
          /\ fwd' = [fwd EXCEPT ![i].pc = "sendData"]
          /\ UNCHANGED mStreams
     ELSE /\ hLocal' = "degraded"
          /\ fwd' = [fwd EXCEPT ![i].pc = "sendError", ![i].failed = TRUE]
          /\ mStreams' = [mStreams EXCEPT !.failed = @ + 1]
  /\ UNCHANGED <<streams, inst, cbCreated, cbClosed, dispVars, connVars, wrVars,
                 sendCh, ctxDone, sup, callers>>

\* connector.SendFrame(frame) with the result dropped or only logged
FwdSend(i, pc, fl, next) ==
  /\ Forwarding(i, pc)
  /\ sendCh' = SendFrameQ(connected, sendCh, Frame("Data", fl, fwd[i].id, 0))
  /\ fwd' = [fwd EXCEPT ![i].pc = next,
                        ![i].emitted = IF SendFrameRes(connected, sendCh) = "nil"
                                       THEN Append(@, fl) ELSE @]
  /\ UNCHANGED <<regVars, hLocal, dispVars, connVars, wrVars, ctxDone, sup, callers>>

FwdSendError(i) == FwdSend(i, "sendError", "Error", "close")

FwdSendData(i) == FwdSend(i, "sendData", "None", "sendEnd")

FwdSendEnd(i) == FwdSend(i, "sendEnd", "EndStream", "close")

\* streamManager.CloseStream(frame.StreamID)
FwdClose(i) ==
  /\ Forwarding(i, "close")
  /\ CloseStream(fwd[i].id)
  /\ fwd' = [fwd EXCEPT ![i].pc = "done", ![i].closeRes = CloseStreamRes(fwd[i].id)]
  /\ UNCHANGED <<hLocal, dispVars, connVars, wrVars, sendCh, ctxDone, sup, callers>>

\* ------------------------------------------- readLoop: decoding one frame
\* errors, received: metrics frames_error, frames_received; handled: handler
\* invocations; length: the declared length of the frame last read; buf: the
\* size of the buffer obtained for it, 0 for none; last: how that read ended;
\* sid, to: the stream id of the frame last handed to a handler, and the
\* handler that got it
NoFrameRead ==
  [errors |-> 0, received |-> 0, handled |-> 0, length |-> 0, buf |-> 0,
   last |-> "none", sid |-> 0, to |-> "none"]

\* a length check that lets every length through
InvalidLengthNever(length) == FALSE

\* if length < v1.HeaderSize || length > v1.MaxFrameSize
InvalidLength(length) == length < HeaderSize \/ length > MaxFrameSize

\* v1.ReadFrameLength fails: io.EOF ends the loop, an error with "timeout" in
\* its text continues it, any other error is counted and ends it
RLLengthError(j, err) ==
  /\ ~panicked
  /\ j \in 1..Len(rl)
  /\ rl[j].pc = "read"
  /\ err = "timeout" => tr[rl[j].c] = "open"
  /\ fr.received + fr.errors < MaxFrames
  /\ fr' = [fr EXCEPT !.errors = IF err = "error" THEN @ + 1 ELSE @,
                      !.length = 0, !.buf = 0, !.last = err]
  /\ IF err = "timeout"
     THEN ReadLoopTo(j, "top", 0, NoFrame, 0)
     ELSE ReadLoopTo(j, "done", 0, NoFrame, 0)
  /\ UNCHANGED <<regVars, fwdVars, dConn, dRunning, dCtxDone, panicked, connVars,
                 wrVars, sendCh, ctxDone, sup, cli, ct, call, rt, rd, au, hb, sd, lu>>

\* v1.ReadFrameLength returns length: the range check, then GetBuffer(length)
RLLength(j, length) ==
  /\ Reading(j)
  /\ fr.received + fr.errors < MaxFrames
  /\ IF InvalidLength(length)
     THEN /\ fr' = [fr EXCEPT !.errors = @ + 1, !.length = length, !.buf = 0,
                              !.last = "invalid"]
          /\ ReadLoopTo(j, "done", 0, NoFrame, 0)
     ELSE /\ fr' = [fr EXCEPT !.length = length, !.buf = length,
                              !.last = "length"]
          /\ ReadLoopTo(j, "body", rl[j].c, NoFrame, 0)
  /\ UNCHANGED <<regVars, fwdVars, dConn, dRunning, dCtxDone, panicked, connVars,
                 wrVars, sendCh, ctxDone, sup, cli, ct, call, rt, rd, au, hb, sd, lu>>

\* io.ReadFull of the rest of the frame fails: PutBuffer, return
RLBodyError(j) ==
  /\ ~panicked
  /\ j \in 1..Len(rl)
  /\ rl[j].pc = "body"
  /\ fr' = [fr EXCEPT !.buf = 0, !.last = "body error"]
  /\ ReadLoopTo(j, "done", 0, NoFrame, 0)
  /\ UNCHANGED <<regVars, fwdVars, dConn, dRunning, dCtxDone, panicked, connVars,
                 wrVars, sendCh, ctxDone, sup, cli, ct, call, rt, rd, au, hb, sd, lu>>

\* v1.ParseFrame rejects the bytes: PutBuffer, counted, return
RLParseError(j) ==
  /\ ~panicked
  /\ j \in 1..Len(rl)
  /\ rl[j].pc = "body"
  /\ tr[rl[j].c] = "open"
  /\ fr' = [fr EXCEPT !.errors = @ + 1, !.buf = 0, !.last = "parse error"]
  /\ ReadLoopTo(j, "done", 0, NoFrame, 0)
  /\ UNCHANGED <<regVars, fwdVars, dConn, dRunning, dCtxDone, panicked, connVars,
                 wrVars, sendCh, ctxDone, sup, cli, ct, call, rt, rd, au, hb, sd, lu>>

\* a handleFrame that hands every frame to the stream handler
HandleFrameStream(f) == "stream"

\* handleFrame: the handler that gets f; main sets both handlers before it
\* connects
HandleFrame(f) == IF IsControlFrame(f) THEN "control" ELSE "stream"

\* the frame, of stream id sid, is parsed, counted and handed to
\* handleFrame; the handler returns nil or an error, which is counted before
\* the loop continues
RLHandleFrame(j, sid, herr) ==
  /\ ~panicked
  /\ j \in 1..Len(rl)
  /\ rl[j].pc = "body"
  /\ tr[rl[j].c] = "open"
  /\ fr' = [fr EXCEPT !.received = @ + 1, !.handled = @ + 1, !.buf = 0,
                      !.errors = IF herr THEN @ + 1 ELSE @,
                      !.last = IF herr THEN "handler error" ELSE "handled",
                      !.sid = sid,
                      !.to = HandleFrame(Frame("Data", "None", sid, 0))]
  /\ ReadLoopTo(j, "top", 0, NoFrame, 0)
  /\ UNCHANGED <<regVars, fwdVars, dConn, dRunning, dCtxDone, panicked, connVars,
                 wrVars, sendCh, ctxDone, sup, cli, ct, call, rt, rd, au, hb, sd, lu>>

\* ------------------------------------------------------------ Authenticator
AgentIDs == {"", "a1", "a2"}

\* what json.Unmarshal into AuthResponse makes of a payload: kind "syntax" is
\* bytes that are not JSON, "type" is JSON of another shape, "object" is a
\* JSON object, an absent field being the zero value
AuthObject(success, agent_id, error) ==
  [kind |-> "object", success |-> success, agent_id |-> agent_id,
   error |-> error]

NotJSON(kind) == [kind |-> kind, success |-> FALSE, agent_id |-> "", error |-> ""]

AuthPayloads ==
  {NotJSON("syntax"), NotJSON("type")} \cup
  {AuthObject(su, id, er) : su \in BOOLEAN, id \in AgentIDs, er \in {"", "denied"}}

Unmarshals(p) == p.kind = "object"

IsAck(f) == f.flags = "Ack"

AuthErr(err, msg) == [err |-> err, msg |-> msg]

\* NewAuthenticator, with the agent id of the configuration; no call yet.
\* res, f: what the last HandleAuthResponse returned and was given; c: the
\* connection that response was read from, 0 for a direct call
NewAuthenticator ==
  [agentID |-> "a1", res |-> AuthErr("none", ""),
   f |-> Frame("None", "None", 0, NotJSON("syntax")), c |-> 0]

\* the error HandleAuthResponse(f) returns, "nil" for none
HandleAuthResponse(f) ==
  IF f.type # "Auth" THEN AuthErr("ErrInvalidFrame", "")
  ELSE IF ~IsControlFrame(f) THEN AuthErr("ErrInvalidFrame", "")
  ELSE IF ~IsAck(f) THEN AuthErr("ErrAuthFailed", "")
  ELSE IF ~Unmarshals(f.payload) THEN AuthErr("json error", f.payload.kind)
  ELSE IF ~f.payload.success THEN AuthErr("auth failed", f.payload.error)
  ELSE AuthErr("nil", "")

\* a.agentID after HandleAuthResponse(f)
AgentIDAfter(id, f) ==
  IF HandleAuthResponse(f).err = "nil" /\ f.payload.agent_id # ""
  THEN f.payload.agent_id ELSE id

AuthFrames ==
  {Frame(t, fl, sid, p) : t \in {"Auth", "Heartbeat", "Data"},
                          fl \in {"None", "Ack"}, sid \in {0, 1},
                          p \in AuthPayloads}

\* a call of HandleAuthResponse(f)
AuthCall(f) ==
  /\ au' = [agentID |-> AgentIDAfter(au.agentID, f),
            res |-> HandleAuthResponse(f), f |-> f, c |-> 0]
  /\ UNCHANGED <<regVars, fwdVars, dispVars, connVars, wrVars, sendCh, ctxDone,
                 sup, cli, ct, call, rt, rd, fr, hb, sd, lu>>

\* ---------------------------------------------------------------- Heartbeat
\* loops: the position of every heartbeatLoop goroutine started; sent, failed:
\* the metrics heartbeats_sent and heartbeats_failed; f: the frame last passed
\* to SendFrame
NewHeartbeat ==
  [running |-> FALSE, ctxDone |-> FALSE, loops |-> <<>>, sent |-> 0,
   failed |-> 0, f |-> NoFrame]

HeartbeatFrame == Frame("Heartbeat", "None", StreamIDControl, 0)

\* Heartbeat.Start
HeartbeatStart(h) ==
  IF h.running THEN h
  ELSE [h EXCEPT !.running = TRUE, !.loops = Append(@, "wait")]

\* Heartbeat.Stop: cancel, running = false; it does not wait for the loop
HeartbeatStop(h) == [h EXCEPT !.ctxDone = TRUE, !.running = FALSE]

HBStart ==
  /\ Len(hb.loops) < MaxBeatLoops
  /\ hb' = HeartbeatStart(hb)
  /\ UNCHANGED <<regVars, fwdVars, dispVars, connVars, wrVars, sendCh, ctxDone,
                 sup, cli, ct, call, rt, rd, fr, au, sd, lu>>

HBStop ==
  /\ hb' = HeartbeatStop(hb)
  /\ UNCHANGED <<regVars, fwdVars, dispVars, connVars, wrVars, sendCh, ctxDone,
                 sup, cli, ct, call, rt, rd, fr, au, sd, lu>>

\* heartbeatLoop, case <-h.ctx.Done(): return
HBDone(l) ==
  /\ l \in 1..Len(hb.loops)
  /\ hb.loops[l] = "wait"
  /\ hb.ctxDone
  /\ hb' = [hb EXCEPT !.loops[l] = "done"]
  /\ UNCHANGED <<regVars, fwdVars, dispVars, connVars, wrVars, sendCh, ctxDone,
                 sup, cli, ct, call, rt, rd, fr, au, sd, lu>>

\* heartbeatLoop, case <-ticker.C: the select takes it whenever the ticker has
\* fired, whether or not ctx is done as well; then IsConnected()
HBTick(l) ==
  /\ l \in 1..Len(hb.loops)
  /\ hb.loops[l] = "wait"
  /\ hb.sent + hb.failed < MaxBeats
  /\ hb' = [hb EXCEPT !.loops[l] = IF connected THEN "send" ELSE "wait"]
  /\ UNCHANGED <<regVars, fwdVars, dispVars, connVars, wrVars, sendCh, ctxDone,
                 sup, cli, ct, call, rt, rd, fr, au, sd, lu>>

\* heartbeatLoop: SendFrame(frame) and the metric that follows
HBSend(l) ==
  /\ l \in 1..Len(hb.loops)
  /\ hb.loops[l] = "send"
  /\ sendCh' = SendFrameQ(connected, sendCh, HeartbeatFrame)
  /\ hb' = IF SendFrameRes(connected, sendCh) = "nil"
           THEN [hb EXCEPT !.loops[l] = "wait", !.sent = @ + 1,
                           !.f = HeartbeatFrame]
           ELSE [hb EXCEPT !.loops[l] = "wait", !.failed = @ + 1,
                           !.f = HeartbeatFrame]
  /\ UNCHANGED <<regVars, fwdVars, dispVars, connVars, wrVars, ctxDone,
                 sup, cli, ct, call, rt, rd, fr, au, sd, lu>>

\* ------------------------------------------- control handler, FrameAuth
\* the control frames of type Auth the peer may send
ControlAuthFrames == {f \in AuthFrames : f.type = "Auth" /\ IsControlFrame(f)}

\* readLoop reads the Auth control frame f and runs the control handler on
\* it: HandleAuthResponse, the health update, heartbeat.Start() on success;
\* an error returned by the handler is counted by readLoop, which continues
ControlAuth(j, f) ==
  /\ Reading(j)
  /\ f \in ControlAuthFrames
  /\ fr.received + fr.errors < MaxFrames
  /\ LET res == HandleAuthResponse(f) IN
     /\ au' = [agentID |-> AgentIDAfter(au.agentID, f), res |-> res, f |-> f,
               c |-> rl[j].c]
     /\ hConnection' = IF res.err = "nil" THEN "healthy" ELSE "unhealthy"
     /\ hb' = IF res.err = "nil" THEN HeartbeatStart(hb) ELSE hb
     /\ fr' = [fr EXCEPT !.received = @ + 1, !.handled = @ + 1,
                         !.errors = IF res.err = "nil" THEN @ ELSE @ + 1,
                         !.last = IF res.err = "nil" THEN "handled"
                                  ELSE "handler error",
                         !.sid = f.sid, !.to = HandleFrame(f)]
  /\ ReadLoopTo(j, "top", 0, NoFrame, 0)
  /\ UNCHANGED <<regVars, fwdVars, dConn, dRunning, dCtxDone, panicked, conn,
                 connected, tr, nDisc, mConn, wrVars, sendCh, ctxDone, sup,
                 cli, ct, call, rt, rd, sd, lu>>

\* ---------------------------------------------------- main: shutdown
\* pc: how far main has got after the signal; err: what SendFrame returned
\* for the Close frame
NoShutdown == [pc |-> "run", err |-> "none"]

CloseFrame == Frame("Close", "None", StreamIDControl, 0)

\* Connect() has returned nil and main waits for the signal
MainWaiting == sup.pc = "idle" /\ sup.err = "nil" /\ mConn.total > 0

\* the signal arrives: connector.SendFrame(closeFrame), an error is logged
ShutSendClose ==
  /\ ~panicked
  /\ MainWaiting
  /\ sd.pc = "run"
  /\ sendCh' = SendFrameQ(connected, sendCh, CloseFrame)
  /\ sd' = [pc |-> "sleep", err |-> SendFrameRes(connected, sendCh)]
  /\ UNCHANGED <<regVars, fwdVars, dispVars, connVars, wrVars, ctxDone, sup,
                 cli, ct, call, rt, rd, fr, au, hb, lu>>

\* time.Sleep(100ms) is over: heartbeat.Stop()
ShutStopHeartbeat ==
  /\ sd.pc = "sleep"
  /\ hb' = HeartbeatStop(hb)
  /\ sd' = [sd EXCEPT !.pc = "heartbeat stopped"]
  /\ UNCHANGED <<regVars, fwdVars, dispVars, connVars, wrVars, sendCh, ctxDone,
                 sup, cli, ct, call, rt, rd, fr, au, lu>>

\* dispatcher.Stop()
ShutStopDispatcher ==
  /\ sd.pc = "heartbeat stopped"
  /\ dCtxDone' = TRUE
  /\ dRunning' = FALSE
  /\ sd' = [sd EXCEPT !.pc = "dispatcher stopped"]
  /\ UNCHANGED <<regVars, fwdVars, rl, dConn, panicked, connVars, wrVars,
                 sendCh, ctxDone, sup, cli, ct, call, rt, rd, fr, au, hb, lu>>

\* connector.Close()
ShutClose ==
  /\ sd.pc = "dispatcher stopped"
  /\ ctxDone' = TRUE
  /\ Disconnect(hConnection)
  /\ sd' = [sd EXCEPT !.pc = "done"]
  /\ UNCHANGED <<regVars, fwdVars, rl, dConn, panicked, wrVars, sendCh, sup,
                 cli, ct, call, rt, rd, fr, au, hb, lu>>

\* ------------------------------------------------------- LocalForwarder
\* strings are sequences of characters
Strings(alphabet, n) == UNION {[1..k -> alphabet] : k \in 0..n}

HasPrefix(s, prefix) ==
  Len(prefix) <= Len(s) /\ SubSeq(s, 1, Len(prefix)) = prefix

HasSuffix(s, suffix) ==
  Len(suffix) <= Len(s) /\ SubSeq(s, Len(s) - Len(suffix) + 1, Len(s)) = suffix

TrimPrefix(s, prefix) ==
  IF HasPrefix(s, prefix) THEN SubSeq(s, Len(prefix) + 1, Len(s)) ELSE s

\* a configuration: SetDefaultURL and three AddService calls, one of
\* them with an empty subdomain
DefaultURL == <<"d">>

LocalServices ==
  {<<<<"a">>, <<"u">>>>, <<<<"a", ".", "a">>, <<"v", "/">>>>, <<<<>>, <<"e">>>>}

\* the mappings the loop of determineLocalURL would return for host
Matching(host) ==
  {m \in LocalServices :
     m[1] # <<>> /\ (HasPrefix(host, m[1] \o <<".">>) \/ host = m[1])}

\* what determineLocalURL(host) can return: the range over the map visits
\* its keys in an order that differs from call to call
DetermineLocalURL(host) ==
  IF host = <<>> \/ Matching(host) = {} THEN {DefaultURL}
  ELSE {m[2] : m \in Matching(host)}

BuildLocalURL(baseURL, path, query) ==
  LET sep == IF ~HasSuffix(baseURL, <<"/">>) /\ ~HasPrefix(path, <<"/">>)
             THEN baseURL \o <<"/">> ELSE baseURL
      url == sep \o TrimPrefix(path, <<"/">>)
  IN IF query # <<>> THEN url \o <<"?">> \o query ELSE url

Hosts == Strings({"a", "."}, MaxHost)

Paths == Strings({"/", "p"}, MaxPath)

Queries == {<<>>, <<"q">>}

\* no request yet
NoForward ==
  [host |-> <<>>, base |-> DefaultURL, path |-> <<>>, query |-> <<>>,
   url |-> BuildLocalURL(DefaultURL, <<>>, <<>>),
   prevHost |-> <<>>, prevBase |-> DefaultURL]

\* ForwardRequest, step 2: determineLocalURL(Host), buildLocalURL
ForwardURL(host, path, query) ==
  /\ \E base \in DetermineLocalURL(host) :
        lu' = [host |-> host, base |-> base, path |-> path, query |-> query,
               url |-> BuildLocalURL(base, path, query),
               prevHost |-> lu.host, prevBase |-> lu.base]
  /\ UNCHANGED <<regVars, fwdVars, dispVars, connVars, wrVars, sendCh, ctxDone,
                 sup, cli, ct, call, rt, rd, fr, au, hb, sd>>

\* ------------------------------------------------------------ Stream.Read
\* s: the Stream read (index into inst, 0 before it exists); readBuf: its
\* Stream.readBuf; n, err: what the last Read returned; from: the branch that
\* served it; out: the bytes returned so far; enq: the bytes enqueued so far;
\* hsf: the position of handleStreamFrame in the frame it is handling
NoReader ==
  [s |-> 0, readBuf |-> <<>>, n |-> 0, err |-> "none", from |-> "none",
   out |-> <<>>, enq |-> <<>>, hsf |-> "idle"]

\* n = copy(p, data) with len(p) = p
Copy(p, data) == Min(p, Len(data))

Take(data, n) == SubSeq(data, 1, n)

Drop(data, n) == SubSeq(data, n + 1, Len(data))

\* a Read that forgets the part of the chunk that did not fit
ReadBufForget(old, data, n) == old

\* if n < len(data) { s.readBuf = data[n:] }
ReadBufAfter(old, data, n) == IF n < Len(data) THEN Drop(data, n) ELSE old

SelectCases == {"dataOut", "closeCh"}

\* a select that waits for data whatever was closed
SelectCaseOpen(S, c) ==
  IF c = "dataOut" /\ S.dataOut # <<>> THEN "data" ELSE "wait"

\* the select of Read on Stream S: what case c does when chosen, "wait" when
\* it is not ready. A closed channel still yields what it has buffered
\* (ok = true) and then the zero value (ok = false)
SelectCase(S, c) ==
  IF c = "dataOut"
  THEN IF S.dataOut # <<>> THEN "data"
       ELSE IF S.dataOutClosed > 0 THEN "EOF" ELSE "wait"
  ELSE IF S.closeCh > 0 THEN "EOF" ELSE "wait"

\* a Read call would return now
ReadReady ==
  /\ rd.s # 0
  /\ rd.readBuf # <<>> \/ \E c \in SelectCases : SelectCase(inst[rd.s], c) # "wait"

\* Stream.Read(p) with len(p) = p; c is the case the select takes among the
\* ready ones (no step while none is ready: the call blocks)
Read(p, c) ==
  /\ ~panicked
  /\ rd.s # 0
  /\ IF rd.readBuf # <<>>
     THEN LET n == Copy(p, rd.readBuf) IN
          /\ c = "dataOut"
          /\ rd' = [rd EXCEPT !.readBuf = Drop(@, n), !.n = n, !.err = "nil",
                              !.from = "readBuf",
                              !.out = @ \o Take(rd.readBuf, n)]
          /\ UNCHANGED inst
     ELSE CASE SelectCase(inst[rd.s], c) = "data" ->
                 LET data == Head(inst[rd.s].dataOut)
                     n == Copy(p, data)
                 IN /\ inst' = [inst EXCEPT ![rd.s].dataOut = Tail(@)]
                    /\ rd' = [rd EXCEPT !.readBuf = ReadBufAfter(@, data, n),
                                        !.n = n, !.err = "nil",
                                        !.from = "dataOut",
                                        !.out = @ \o Take(data, n)]
            [] SelectCase(inst[rd.s], c) = "EOF" ->
                 /\ rd' = [rd EXCEPT !.n = 0, !.err = "EOF", !.from = c]
                 /\ UNCHANGED inst
            [] OTHER -> FALSE
  /\ UNCHANGED <<streams, cbCreated, cbClosed, mStreams, fwdVars, dispVars,
                 connVars, wrVars, sendCh, ctxDone, sup, cli, ct, call, rt, obs>>

\* handleStreamFrame, FrameOpenStream: CreateStream; the goroutine started
\* for the request holds the new Stream and reads it
HandleOpenStream(id) ==
  /\ ~panicked
  /\ rd.s = 0
  /\ ~Exists(id)
  /\ Len(inst) < MaxInst
  /\ CreateStream(id)
  /\ rd' = [rd EXCEPT !.s = Len(inst) + 1]
  /\ UNCHANGED <<fwdVars, dispVars, connVars, wrVars, sendCh, ctxDone, sup,
                 cli, ct, call, rt, obs>>

\* handleStreamFrame, FrameData with a payload of len bytes: GetStream finds
\* the stream and the select enqueues the payload on its open dataOut
HandleData(len, fl) ==
  /\ ~panicked
  /\ rd.s # 0
  /\ rd.hsf = "idle"
  /\ GetStream(inst[rd.s].ID) = rd.s
  /\ inst[rd.s].dataOutClosed = 0
  /\ Len(inst[rd.s].dataOut) < DataOutCap
  /\ Len(rd.enq) + len <= MaxBytes
  /\ LET payload == [i \in 1..len |-> Len(rd.enq) + i] IN
     /\ inst' = [inst EXCEPT ![rd.s].dataOut = Append(@, payload)]
     /\ rd' = [rd EXCEPT !.enq = @ \o payload,
                         !.hsf = IF fl = "EndStream" THEN "end" ELSE "idle"]
  /\ UNCHANGED <<streams, cbCreated, cbClosed, mStreams, fwdVars, dispVars,
                 connVars, wrVars, sendCh, ctxDone, sup, cli, ct, call, rt, obs>>

\* handleStreamFrame, FrameData: frame.IsEndStream(), CloseStream
HandleEndStream ==
  /\ ~panicked
  /\ rd.hsf = "end"
  /\ CloseStream(inst[rd.s].ID)
  /\ rd' = [rd EXCEPT !.hsf = "idle"]
  /\ UNCHANGED <<fwdVars, dispVars, connVars, wrVars, sendCh, ctxDone, sup,
                 cli, ct, call, rt, obs>>

\* readLoop reads a Data frame with a payload of len bytes for the stream
\* that is read: GetStream, then the select on dataOut
RLDataChunk(j, len) ==
  /\ Reading(j)
  /\ rd.s # 0
  /\ Len(rd.enq) + len <= MaxBytes
  /\ LET id == inst[rd.s].ID
         payload == [i \in 1..len |-> Len(rd.enq) + i]
     IN IF GetStream(id) = 0
        THEN /\ ReadLoopTo(j, "top", 0, NoFrame, 0)
             /\ UNCHANGED rd
        ELSE /\ ReadLoopTo(j, "data", rl[j].c, Frame("Data", "None", id, payload),
                           GetStream(id))
             /\ rd' = [rd EXCEPT !.enq = @ \o payload]
  /\ UNCHANGED <<regVars, fwdVars, dConn, dRunning, dCtxDone, panicked, connVars,
                 wrVars, sendCh, ctxDone, sup, cli, ct, call, rt, obs>>

\* ------------------------------------------------ Stream.Write, Close
\* the frame Write(p) builds for Stream S
WriteFrame(S, p) == Frame("Data", "None", S.ID, p)

\* the frame Close() builds for Stream S, with a nil payload
EndStreamFrame(S) == Frame("Data", "EndStream", S.ID, 0)

\* a Write that reports len(p) whatever SendFrame returned
WriteNAlways(p, err) == Len(p)

\* the n that Write(p) returns when SendFrame returned err
WriteN(p, err) == IF err = "nil" THEN Len(p) ELSE 0

\* Stream.Write(p) on the Stream object i
StreamWrite(i, p) ==
  /\ i \in 1..Len(inst)
  /\ sendCh' = SendFrameQ(connected, sendCh, WriteFrame(inst[i], p))
  /\ call' = [op |-> "Write", id |-> inst[i].ID,
              err |-> SendFrameRes(connected, sendCh), s |-> i,
              n |-> WriteN(p, SendFrameRes(connected, sendCh)), p |-> p]
  /\ UNCHANGED <<regVars, fwdVars, dispVars, connVars, wrVars, ctxDone, sup,
                 cli, ct, rt, rd, obs>>

\* Stream.Close() on the Stream object i
StreamClose(i) ==
  /\ i \in 1..Len(inst)
  /\ sendCh' = SendFrameQ(connected, sendCh, EndStreamFrame(inst[i]))
  /\ call' = [op |-> "Close", id |-> inst[i].ID,
              err |-> SendFrameRes(connected, sendCh), s |-> i,
              n |-> 0, p |-> <<>>]
  /\ UNCHANGED <<regVars, fwdVars, dispVars, connVars, wrVars, ctxDone, sup,
                 cli, ct, rt, rd, obs>>

\* ------------------------------------------- direct callers of the registry
NoStream == 0

RegCreate(id) ==
  /\ Exists(id) \/ Len(inst) < MaxInst
  /\ CreateStream(id)
  /\ call' = [op |-> "CreateStream", id |-> id, err |-> CreateStreamRes(id),
              s |-> IF Exists(id) THEN NoStream ELSE Len(inst) + 1]
  /\ UNCHANGED <<fwdVars, dispVars, connVars, wrVars, sendCh, ctxDone, sup,
                 cli, ct, rt, rd, obs>>

RegGet(id) ==
  /\ call' = [op |-> "GetStream", id |-> id, err |-> "nil", s |-> GetStream(id)]
  /\ UNCHANGED <<regVars, fwdVars, dispVars, connVars, wrVars, sendCh, ctxDone,
                 sup, cli, ct, rt, rd, obs>>

RegClose(id) ==
  /\ CloseStream(id)
  /\ call' = [op |-> "CloseStream", id |-> id, err |-> CloseStreamRes(id),
              s |-> NoStream]
  /\ UNCHANGED <<fwdVars, dispVars, connVars, wrVars, sendCh, ctxDone, sup,
                 cli, ct, rt, rd, obs>>

\* one of the concurrent callers of CreateStream gets the registry lock
TaskCreate(t) ==
  /\ t \in 1..Len(ct)
  /\ ct[t].err = "none"
  /\ CreateStream(ct[t].id)
  /\ ct' = [ct EXCEPT ![t].err = CreateStreamRes(ct[t].id)]
  /\ UNCHANGED <<fwdVars, dispVars, connVars, wrVars, sendCh, ctxDone, sup,
                 cli, call, rt, rd, obs>>

\* -------------------------------------------------------- specifications
InitAgent ==
  /\ streams = [id \in IDs |-> 0]
  /\ inst = <<>>
  /\ cbCreated = [id \in IDs |-> 0]
  /\ cbClosed = [id \in IDs |-> 0]
  /\ mStreams = [total |-> 0, active |-> 0, completed |-> 0, failed |-> 0]
  /\ hLocal = "healthy"
  /\ fwd = <<>>
  /\ rl = <<>>
  /\ dConn = 0
  /\ dRunning = FALSE
  /\ dCtxDone = FALSE
  /\ panicked = FALSE
  /\ conn = 0
  /\ connected = FALSE
  /\ sendCh = <<>>
  /\ ctxDone = FALSE
  /\ tr = <<>>
  /\ wl = <<>>
  /\ wire = <<>>
  /\ nDisc = <<>>
  /\ mConn = [total |-> 0, active |-> 0]
  /\ hConnection = "degraded"
  /\ sup = [pc |-> "idle", err |-> "nil"]
  /\ cli = [n |-> 0, pc |-> "idle", ret |-> "none"]
  /\ call = [op |-> "none", id |-> 0, err |-> "nil", s |-> NoStream]
  /\ rd = NoReader
  /\ fr = NoFrameRead
  /\ au = NewAuthenticator
  /\ hb = NewHeartbeat
  /\ sd = NoShutdown
  /\ lu = NoForward

\* max_retries as NewConnector sets it, no call of connectWithRetry yet
NoRetry(mr) ==
  [maxRetries |-> mr, backoff |-> RetryInterval, retries |-> 0,
   consecutiveErrors |-> 0, fails |-> 0, waits |-> <<>>, reached |-> 0]

Init == InitAgent /\ ct = <<>> /\ rt = NoRetry(-1)

\* a connector configured with SetMaxRetries
InitRetry ==
  /\ InitAgent
  /\ ct = <<>>
  /\ \E mr \in {-1, 0} \cup (1..MaxRetriesN) : rt = NoRetry(mr)

\* NTasks tasks about to call CreateStream, each with an id of its own choice
InitCreate ==
  /\ InitAgent
  /\ ct \in [1..NTasks -> [id : IDs, err : {"none"}]]
  /\ rt = NoRetry(-1)

LifeNext ==
  \/ SupConnect
  \/ SupReconnect
  \/ SupDisconnect
  \/ DialFail
  \/ DialOk
  \/ ConnClose
  \/ \E k \in 1..MaxConns : TrBreak(k)

WriteNext ==
  \/ \E k \in 1..MaxConns, full \in BOOLEAN : WLSend(k, full)
  \/ \E k \in 1..MaxConns : WLTimer(k)

ControlNext ==
  \/ \E j \in 1..MaxConns : RLTop(j)
  \/ \E j \in 1..MaxConns : RLTimeout(j)
  \/ \E j \in 1..MaxConns : RLEnd(j)
  \/ \E j \in 1..MaxConns : RLControlClose(j)
  \/ \E j \in 1..MaxConns : ControlClose(j)

StreamNext ==
  \/ \E j \in 1..MaxConns, id \in PeerIDs : RLOpenStream(j, id)
  \/ \E j \in 1..MaxConns, id \in PeerIDs, fl \in {"None", "EndStream"} :
        RLData(j, id, fl)
  \/ \E j \in 1..MaxConns : RLDeliver(j)
  \/ \E j \in 1..MaxConns, sendCase \in BOOLEAN : RLDeliverClosed(j, sendCase)
  \/ \E j \in 1..MaxConns : RLEndStream(j)
  \/ \E j \in 1..MaxConns, id \in PeerIDs : RLStreamClose(j, id)
  \/ \E i \in 1..MaxInst, ok \in BOOLEAN : FwdForward(i, ok)
  \/ \E i \in 1..MaxInst : FwdSendError(i)
  \/ \E i \in 1..MaxInst : FwdSendData(i)
  \/ \E i \in 1..MaxInst : FwdSendEnd(i)
  \/ \E i \in 1..MaxInst : FwdClose(i)

\* the agent of cmd/agent up to the shutdown signal
Next ==
  \/ MainConnect
  \/ DialFail
  \/ DialOk
  \/ \E k \in 1..MaxConns : TrBreak(k)
  \/ WriteNext
  \/ ControlNext
  \/ StreamNext

Spec == Init /\ [][Next]_vars

\* the registry under direct calls
RegNext == \E id \in IDs : RegCreate(id) \/ RegGet(id) \/ RegClose(id)

SpecReg == Init /\ [][RegNext]_vars

\* the registry under NTasks concurrent CreateStream calls
SpecCreate == InitCreate /\ [][\E t \in 1..NTasks : TaskCreate(t)]_vars

\* Connect and Reconnect calls with dials that fail or succeed, and Close
RetryNext ==
  \/ RetryConnect
  \/ RetryReconnect
  \/ RetryDialFail
  \/ \E timer \in BOOLEAN : RetryWait(timer)
  \/ RetryDialOk
  \/ ConnClose

SpecRetry == InitRetry /\ [][RetryNext]_vars

\* the connector under every caller of its lifecycle operations
SpecLife ==
  Init /\ [][LifeNext \/ WriteNext \/ (\E k \in 1..MaxConns : WLCtxDone(k))
               \/ ControlNext]_vars

\* the connector's send path: a task offering frames, the write loops
SendNext ==
  \/ LifeNext
  \/ WriteNext
  \/ \E k \in 1..MaxConns : WLCtxDone(k)
  \/ CliSendFrame
  \/ CliSelect

SpecSend == Init /\ [][SendNext]_vars

\* the write loops run: the scheduler and the flush timer are fair to each
WriteFairness ==
  \A k \in 1..MaxConns :
    /\ WF_vars(\E full \in BOOLEAN : WLSend(k, full))
    /\ WF_vars(WLTimer(k))

SpecSendFair == SpecSend /\ WriteFairness

\* the send path of a connector used as cmd/agent uses it: one Connect call,
\* then Disconnect and Close calls, transport failures and a sending task
EpisodeNext ==
  \/ MainConnect
  \/ DialFail
  \/ DialOk
  \/ SupDisconnect
  \/ ConnClose
  \/ \E k \in 1..MaxConns : TrBreak(k)
  \/ WriteNext
  \/ \E k \in 1..MaxConns : WLCtxDone(k)
  \/ CliSendFrame
  \/ CliSelect

SpecEpisode == Init /\ [][EpisodeNext]_vars

SpecEpisodeFair == SpecEpisode /\ WriteFairness

\* a stream the peer opens and feeds with Data frames, the last of them with
\* EndStream, and the task that reads it
DeliverNext ==
  \/ \E id \in PeerIDs : HandleOpenStream(id)
  \/ \E len \in 0..MaxChunk, fl \in {"None", "EndStream"} : HandleData(len, fl)
  \/ HandleEndStream
  \/ \E p \in 1..MaxBuf, c \in SelectCases : Read(p, c)

SpecDeliver == Init /\ [][DeliverNext]_vars

\* the same with CloseStream calls of other tasks at any time
ReadNext ==
  \/ DeliverNext
  \/ \E id \in IDs : RegClose(id)

SpecRead == Init /\ [][ReadNext]_vars

\* the reading task keeps calling Read
SpecReadFair == SpecRead /\ WF_vars(\E p \in 1..MaxBuf, c \in SelectCases : Read(p, c))

\* the dispatcher under direct Start and Stop calls, next to the agent's one
\* Connect call (onConnected installs the connection and calls Start too)
DispNext ==
  \/ DispStart
  \/ DispStop
  \/ MainConnect
  \/ DialFail
  \/ DialOk
  \/ \E k \in 1..MaxConns : TrBreak(k)
  \/ \E k \in 1..MaxConns, full \in BOOLEAN : WLSend(k, full)
  \/ \E j \in 1..MaxLoops + 1 : RLTop(j)
  \/ \E j \in 1..MaxLoops + 1 : RLSleep(j)
  \/ \E j \in 1..MaxLoops + 1 : RLTimeout(j)
  \/ \E j \in 1..MaxLoops + 1 : RLEnd(j)
  \/ \E j \in 1..MaxLoops + 1 : RLDecodeError(j)
  \/ \E j \in 1..MaxLoops + 1 : RLControlClose(j)
  \/ \E j \in 1..MaxLoops + 1 : ControlClose(j)

SpecDisp == Init /\ [][DispNext]_vars

\* HandleAuthResponse called with any frame
SpecAuth == Init /\ [][\E f \in AuthFrames : AuthCall(f)]_vars

\* one run of the agent as far as authentication goes: the connection, the
\* read loop handling control frames, the heartbeat and the write loop
ControlAuthNext ==
  \/ MainConnect
  \/ DialOk
  \/ \E j \in 1..MaxConns : RLTop(j)
  \/ \E j \in 1..MaxConns : RLTimeout(j)
  \/ \E j \in 1..MaxConns : RLControlClose(j)
  \/ \E j \in 1..MaxConns : ControlClose(j)
  \/ \E j \in 1..MaxConns, f \in ControlAuthFrames : ControlAuth(j, f)
  \/ \E l \in 1..MaxBeatLoops : HBTick(l)
  \/ \E l \in 1..MaxBeatLoops : HBSend(l)
  \/ \E k \in 1..MaxConns, full \in BOOLEAN : WLSend(k, full)

SpecControl == Init /\ [][ControlAuthNext]_vars

\* the tasks of the agent run whenever they can; what the peer sends is not
\* promised
ControlFairness ==
  /\ \A j \in 1..MaxConns : WF_vars(RLTop(j) \/ RLTimeout(j) \/ ControlClose(j))
  /\ \A l \in 1..MaxBeatLoops : WF_vars(HBSend(l))
  /\ \A k \in 1..MaxConns : WF_vars(\E full \in BOOLEAN : WLSend(k, full))
  /\ WF_vars(DialOk)

SpecControlFair == SpecControl /\ ControlFairness

\* one run of main from Connect to the end of the shutdown sequence, with
\* the heartbeat, a task sending stream frames, the write and read loops
ShutNext ==
  \/ MainConnect
  \/ DialOk
  \/ HBStart
  \/ \E l \in 1..MaxBeatLoops : HBDone(l)
  \/ \E l \in 1..MaxBeatLoops : HBTick(l)
  \/ \E l \in 1..MaxBeatLoops : HBSend(l)
  \/ CliSendFrame
  \/ CliSelect
  \/ \E j \in 1..MaxConns : RLTop(j)
  \/ \E j \in 1..MaxConns : RLTimeout(j)
  \/ \E j \in 1..MaxConns : RLEnd(j)
  \/ \E k \in 1..MaxConns, full \in BOOLEAN : WLSend(k, full)
  \/ \E k \in 1..MaxConns : WLTimer(k)
  \/ \E k \in 1..MaxConns : WLCtxDone(k)
  \/ ShutSendClose
  \/ ShutStopHeartbeat
  \/ ShutStopDispatcher
  \/ ShutClose

SpecShut == Init /\ [][ShutNext]_vars

\* Connector.Close beside the supervisor, the write and read loops and the
\* heartbeat
CloseNext ==
  \/ SupConnect
  \/ SupReconnect
  \/ DialFail
  \/ DialOk
  \/ ConnClose
  \/ HBStart
  \/ HBStop
  \/ \E l \in 1..MaxBeatLoops : HBDone(l)
  \/ \E l \in 1..MaxBeatLoops : HBTick(l)
  \/ \E l \in 1..MaxBeatLoops : HBSend(l)
  \/ \E j \in 1..MaxConns : RLTop(j)
  \/ \E j \in 1..MaxConns : RLTimeout(j)
  \/ \E j \in 1..MaxConns : RLEnd(j)
  \/ \E k \in 1..MaxConns, full \in BOOLEAN : WLSend(k, full)
  \/ \E k \in 1..MaxConns : WLCtxDone(k)

SpecClose == Init /\ [][CloseNext]_vars

\* every goroutine that can take a step takes one
CloseFairness ==
  /\ \A l \in 1..MaxBeatLoops : WF_vars(HBDone(l)) /\ WF_vars(HBSend(l))
  /\ \A j \in 1..MaxConns : WF_vars(RLTop(j) \/ RLTimeout(j) \/ RLEnd(j))
  /\ \A k \in 1..MaxConns :
       WF_vars(WLCtxDone(k)) /\ WF_vars(\E full \in BOOLEAN : WLSend(k, full))

SpecCloseFair == SpecClose /\ CloseFairness

\* requests forwarded one after another by the multi-service forwarder
SpecURL ==
  Init /\ [][\E host \in Hosts, path \in Paths, query \in Queries :
               ForwardURL(host, path, query)]_vars

\* the read loop delivering Data frames to a stream that a task reads and
\* that CloseStream may close
FifoNext ==
  \/ MainConnect
  \/ DialOk
  \/ \E j \in 1..MaxConns : RLTop(j)
  \/ \E id \in PeerIDs : HandleOpenStream(id)
  \/ \E j \in 1..MaxConns, len \in 1..MaxChunk : RLDataChunk(j, len)
  \/ \E j \in 1..MaxConns : RLDeliver(j)
  \/ \E j \in 1..MaxConns, sendCase \in BOOLEAN : RLDeliverClosed(j, sendCase)
  \/ \E p \in 1..MaxBuf, c \in SelectCases : Read(p, c)
  \/ \E id \in PeerIDs : RegClose(id)

SpecFifo == Init /\ [][FifoNext]_vars

\* tasks writing to and closing streams of the registry, connected or not
StreamWriteNext ==
  \/ MainConnect
  \/ DialOk
  \/ \E id \in PeerIDs : RegCreate(id)
  \/ \E id \in PeerIDs : RegClose(id)
  \/ \E i \in 1..MaxInst, p \in Strings({"x"}, MaxChunk) : StreamWrite(i, p)
  \/ \E i \in 1..MaxInst : StreamClose(i)

SpecWrite == Init /\ [][StreamWriteNext]_vars

\* a connector that is reconnected while a task sends frames: the send queue
\* of NewConnector outlives every transport
QueueNext ==
  \/ MainConnect
  \/ SupReconnect
  \/ DialOk
  \/ WriteNext
  \/ CliSendFrame
  \/ CliSelect

SpecQueue == Init /\ [][QueueNext]_vars

\* streams the peer opens, closes and opens again under the same id while
\* the forwarders of the earlier requests still run
ReuseNext ==
  \/ MainConnect
  \/ DialOk
  \/ \E j \in 1..MaxConns : RLTop(j)
  \/ \E j \in 1..MaxConns, id \in PeerIDs : RLOpenStream(j, id)
  \/ \E j \in 1..MaxConns, id \in PeerIDs : RLStreamClose(j, id)
  \/ \E i \in 1..MaxInst, ok \in BOOLEAN : FwdForward(i, ok)
  \/ \E i \in 1..MaxInst : FwdSendError(i)
  \/ \E i \in 1..MaxInst : FwdSendData(i)
  \/ \E i \in 1..MaxInst : FwdSendEnd(i)
  \/ \E i \in 1..MaxInst : FwdClose(i)
  \/ WriteNext

SpecReuse == Init /\ [][ReuseNext]_vars

\* the agent's authentication and heartbeat with a connector that is
\* reconnected: nothing stops the heartbeat when the transport goes
RebeatNext ==
  \/ MainConnect
  \/ SupReconnect
  \/ DialOk
  \/ \E j \in 1..MaxConns : RLTop(j)
  \/ \E j \in 1..MaxConns, f \in ControlAuthFrames : ControlAuth(j, f)
  \/ \E l \in 1..MaxBeatLoops : HBTick(l)
  \/ \E l \in 1..MaxBeatLoops : HBSend(l)
  \/ \E k \in 1..MaxConns, full \in BOOLEAN : WLSend(k, full)

SpecRebeat == Init /\ [][RebeatNext]_vars

\* the heartbeat beside one supervisor and the write loop
BeatNext ==
  \/ MainConnect
  \/ DialOk
  \/ SupDisconnect
  \/ HBStart
  \/ HBStop
  \/ \E l \in 1..MaxBeatLoops : HBDone(l)
  \/ \E l \in 1..MaxBeatLoops : HBTick(l)
  \/ \E l \in 1..MaxBeatLoops : HBSend(l)
  \/ \E k \in 1..MaxConns, full \in BOOLEAN : WLSend(k, full)

SpecBeat == Init /\ [][BeatNext]_vars

\* the read loop of the agent's one connection, frame by frame
FramesNext ==
  \/ MainConnect
  \/ DialOk
  \/ \E k \in 1..MaxConns : TrBreak(k)
  \/ \E j \in 1..MaxConns : RLTop(j)
  \/ \E j \in 1..MaxConns, err \in {"EOF", "timeout", "error"} :
        RLLengthError(j, err)
  \/ \E j \in 1..MaxConns, length \in 0..MaxFrameSize + 2 : RLLength(j, length)
  \/ \E j \in 1..MaxConns : RLBodyError(j)
  \/ \E j \in 1..MaxConns : RLParseError(j)
  \/ \E j \in 1..MaxConns, sid \in 0..MaxPeerID, herr \in BOOLEAN :
        RLHandleFrame(j, sid, herr)

SpecFrames == Init /\ [][FramesNext]_vars

\* the agent without streams: its one Connect call, the transport, what the
\* read loop and the write loop do about its failures, and a task that sends
\* frames now and then, as the heartbeat does
RecoverNext ==
  \/ MainConnect
  \/ DialFail
  \/ DialOk
  \/ \E k \in 1..MaxConns : TrBreak(k)
  \/ WriteNext
  \/ ControlNext
  \/ \E j \in 1..MaxConns : RLDecodeError(j)
  \/ CliSendFrame
  \/ CliSelect

SpecRecover == Init /\ [][RecoverNext]_vars

\* every goroutine keeps running and a dial that is retried succeeds in the end
RecoverFairness ==
  /\ WF_vars(MainConnect)
  /\ WF_vars(DialOk)
  /\ WriteFairness
  /\ \A j \in 1..MaxConns :
       WF_vars(RLTop(j)) /\ WF_vars(RLEnd(j)) /\ WF_vars(ControlClose(j))

SpecRecoverFair == SpecRecover /\ RecoverFairness

\* ------------------------------------------------------------ properties
Live(i) == inst[i].State # "Closed"

OneStreamPerID ==
  /\ \A i, j \in 1..Len(inst) :
       (inst[i].ID = inst[j].ID /\ Live(i) /\ Live(j)) => i = j
  /\ \A id \in IDs :
       Exists(id) => /\ streams[id] \in 1..Len(inst)
                     /\ inst[streams[id]].ID = id
                     /\ Live(streams[id])
  /\ \A id \in IDs : cbCreated[id] = Cardinality({i \in 1..Len(inst) : inst[i].ID = id})

DuplicateCreate(id) ==
  (call'.op = "CreateStream" /\ call'.id = id /\ Exists(id))
     => /\ call'.err = "ErrStreamAlreadyExists"
        /\ call'.s = NoStream
        /\ UNCHANGED regVars

\* C1: at every instant at most one live Stream exists per id and it is the
\* registered one; CreateStream on a registered id returns
\* ErrStreamAlreadyExists, returns no Stream, leaves the registry and the
\* registered Stream as they were and does not invoke onStreamCreated
C1_OneStreamPerID ==
  /\ OneStreamPerID
  /\ [][OneStreamPerID' /\ \A id \in IDs : DuplicateCreate(id)]_vars

C1_Witness ==
  /\ call.op = "CreateStream"
  /\ call.err = "ErrStreamAlreadyExists"
  /\ Exists(call.id)

Done(id) == {t \in 1..Len(ct) : ct[t].id = id /\ ct[t].err # "none"}

Winners(id) == {t \in Done(id) : ct[t].err = "nil"}

Losers(id) == {t \in Done(id) : ct[t].err = "ErrStreamAlreadyExists"}

\* C2: of the concurrent CreateStream calls that have returned for an id,
\* exactly one returned a Stream and every other one ErrStreamAlreadyExists,
\* and the id is then retrievable with GetStream; calls with distinct ids
\* therefore all succeed
C2_ConcurrentCreate ==
  \A id \in IDs :
    IF Done(id) = {}
    THEN GetStream(id) = NoStream
    ELSE /\ Cardinality(Winners(id)) = 1
         /\ Losers(id) = Done(id) \ Winners(id)
         /\ GetStream(id) # NoStream
         /\ inst[GetStream(id)].ID = id

C2_Witness ==
  /\ \A t \in 1..NTasks : ct[t].err # "none"
  /\ \E t, u \in 1..NTasks : t # u /\ ct[t].id = ct[u].id
  /\ \E t, u \in 1..NTasks : ct[t].id # ct[u].id

ClosedOf(id) == {i \in 1..Len(inst) : inst[i].ID = id /\ ~Live(i)}

CloseOnce ==
  /\ \A i \in 1..Len(inst) :
       /\ inst[i].closeCh = (IF Live(i) THEN 0 ELSE 1)
       /\ inst[i].dataOutClosed = inst[i].closeCh
  /\ \A id \in IDs : cbClosed[id] = Cardinality(ClosedOf(id))

CloseStep(id) ==
  (call'.op = "CloseStream" /\ call'.id = id)
     => IF Exists(id)
        THEN /\ call'.err = "nil"
             /\ inst'[streams[id]].State = "Closed"
             /\ inst'[streams[id]].closeCh = 1
             /\ streams'[id] = 0
             /\ cbClosed'[id] = cbClosed[id] + 1
        ELSE /\ call'.err = "ErrStreamNotFound"
             /\ UNCHANGED regVars

\* C3: in every sequence of CloseStream(id) calls the one that finds the id
\* registered returns nil and tears the Stream down once (state Closed, close
\* signal fired, id removed, onStreamClosed invoked once); every call that
\* does not find the id returns ErrStreamNotFound and changes nothing; no
\* Stream has its close signal fired twice
C3_CloseOnce ==
  /\ CloseOnce
  /\ [][CloseOnce' /\ \A id \in IDs : CloseStep(id)]_vars

C3_Witness ==
  /\ call.op = "CloseStream"
  /\ call.err = "ErrStreamNotFound"
  /\ Cardinality(ClosedOf(call.id)) = 1

Terminating(i) ==
  Len(SelectSeq(fwd[i].emitted, LAMBDA fl : fl \in {"EndStream", "Error"}))

\* the first connection is still up: nothing was ever torn down
StillConnected == conn # 0 /\ Len(tr) = 1 /\ tr[1] = "open"

\* C4: a forwarder that has finished has put exactly one terminating frame
\* (Data|EndStream or Data|Error) for its stream into the send queue
C4_OneTerminatingFrame ==
  \A i \in 1..Len(fwd) :
    (fwd[i].pc = "done" /\ StillConnected) => Terminating(i) = 1

\* C5: a forwarder on the success path that got its EndStream frame into the
\* send queue got a Data frame with Flags=None into it before
C5_DataBeforeEndStream ==
  \A i \in 1..Len(fwd) :
    (~fwd[i].failed /\ fwd[i].emitted # <<>> /\ StillConnected)
       => fwd[i].emitted[1] = "None"

\* C6: a forwarder whose ForwardRequest failed and that has closed its stream
\* has put exactly one Data|Error frame and nothing else into the send queue
C6_OneErrorFrame ==
  \A i \in 1..Len(fwd) :
    (fwd[i].failed /\ fwd[i].pc = "done" /\ StillConnected)
       => fwd[i].emitted = <<"Error">>

\* SendFrame looks at the transport first and at the queue afterwards
SendStep ==
  /\ (cli.pc = "idle" /\ cli' # cli)
        => /\ sendCh' = sendCh
           /\ IF conn = 0
              THEN cli' = [n |-> cli.n + 1, pc |-> "idle", ret |-> "ErrNotConnected"]
              ELSE cli'.pc = "select" /\ cli'.n = cli.n
  /\ (cli.pc = "select" /\ cli' # cli)
        => /\ cli'.n = cli.n + 1
           /\ cli'.pc = "idle"
           /\ IF Len(sendCh) >= SendQueueCap
              THEN cli'.ret = "send queue full" /\ sendCh' = sendCh
              ELSE /\ cli'.ret = "nil"
                   /\ sendCh' = Append(sendCh, Frame("Data", "None", 1, cli.n + 1))

\* C7: SendFrame returns ErrNotConnected when it finds the connector without
\* a transport and "send queue full" when it finds SendQueueCap frames in the
\* queue, leaving the queue as it was in both cases; in every other case it
\* appends the frame at the tail and returns nil; the queue never exceeds its
\* capacity
C7_SendFrame ==
  /\ Len(sendCh) <= SendQueueCap
  /\ [][Len(sendCh') <= SendQueueCap /\ SendStep]_vars

C7_Witness ==
  /\ cli.ret = "send queue full"
  /\ conn # 0
  /\ Len(sendCh) = SendQueueCap

Tags == 1..MaxSends

Flushed(t) ==
  \E k \in 1..Len(wire) : \E i \in 1..Len(wire[k]) : wire[k][i] = t

Pending(t) ==
  \/ \E i \in 1..Len(sendCh) : sendCh[i].payload = t
  \/ \E k \in 1..Len(wl) : \E i \in 1..Len(wl[k].buf) : wl[k].buf[i].payload = t

\* frames reach a transport in the order SendFrame accepted them, once
WireOrder ==
  /\ \A k \in 1..Len(wire) : \A i, j \in 1..Len(wire[k]) :
       i < j => wire[k][i] < wire[k][j]
  /\ \A k, m \in 1..Len(wire) : \A i \in 1..Len(wire[k]), j \in 1..Len(wire[m]) :
       wire[k][i] = wire[m][j] => k = m
  /\ \A t \in Tags : ~(Flushed(t) /\ Pending(t))

TransportDown == ctxDone \/ conn = 0 \/ tr[conn] # "open"

\* C8: the frames SendFrame accepted are written to a transport in the order
\* of their acceptance and each at most once; a frame waiting in the queue or
\* in a write buffer is eventually flushed unless the transport goes down
C8_FifoFlush ==
  /\ WireOrder
  /\ [][WireOrder']_vars
  /\ \A t \in Tags : Pending(t) ~> (Flushed(t) \/ TransportDown)

C8_Witness ==
  /\ cli.ret = "send queue full"
  /\ \E k \in 1..Len(wire) : Len(wire[k]) >= SendQueueCap

Writers == {k \in 1..Len(wl) : wl[k].pc = "run"}

\* C9: at most one write loop is running
C9_OneWriter == Cardinality(Writers) <= 1

OncePerEpisode ==
  /\ \A k \in 1..Len(nDisc) : nDisc[k] = (IF conn = k THEN 0 ELSE 1)
  /\ mConn.active = (IF conn = 0 THEN 0 ELSE 1)
  /\ connected <=> conn # 0

NoTransportNoop ==
  (conn = 0 /\ conn' = 0)
     => /\ nDisc' = nDisc
        /\ mConn' = mConn
        /\ \/ hConnection' = hConnection
           \/ \E j \in 1..Len(rl) : rl[j].pc = "close" /\ rl'[j].pc = "top"
        /\ (sup.pc = "idle" /\ sup'.pc = "idle" /\ sup' # sup)
              => sup'.err # "close error"

\* C10: whichever of the main task, a write loop and the control handler call
\* Disconnect, onDisconnected has been invoked exactly once for every
\* connection torn down and not at all for the current one; a Disconnect
\* without a transport returns nil, invokes no callback and leaves
\* connections_active and the connection health check as they were
C10_DisconnectOnce ==
  /\ OncePerEpisode
  /\ [][OncePerEpisode' /\ NoTransportNoop]_vars

C10_Witness ==
  /\ ~ctxDone
  /\ conn = 0
  /\ nDisc = <<1>>
  /\ wl[1].pc = "done"
  /\ \E j \in 1..Len(rl) : rl[j].pc = "close"

\* C11: a Connect call that returns "max retries exceeded" has made exactly
\* max_retries failed dial attempts
C11_FailAfterN ==
  sup.err = "max retries exceeded" => rt.fails = rt.maxRetries

ExpectedWait(i, prev) ==
  IF i < MaxConsecutiveErrors
  THEN Min(BackoffFactor * prev, MaxBackoff)
  ELSE Min(3 * Min(BackoffFactor * prev, MaxBackoff), 2 * MaxBackoff)

FreshRetryState ==
  /\ rt.waits # <<>> => rt.waits[1] = RetryInterval
  /\ (sup.pc = "idle" /\ sup.err = "nil") => rt.consecutiveErrors = 0

CallStart ==
  (sup.pc = "idle" /\ sup'.pc = "dial")
     => /\ rt'.consecutiveErrors = 0
        /\ rt'.retries = 0
        /\ rt'.backoff = RetryInterval

\* C13: every Connect or Reconnect call starts with consecutive_errors = 0
\* and a backoff of retry_interval, and its first wait is retry_interval,
\* whatever backoff the call before had reached; a call that returned with a
\* connection has left consecutive_errors at 0
C13_RetryReset ==
  /\ FreshRetryState
  /\ [][FreshRetryState' /\ CallStart]_vars

C13_Witness ==
  /\ rt.reached > RetryInterval
  /\ rt.waits = <<RetryInterval>>
  /\ sup.pc = "wait"

\* the read loop j returned on EOF, a read error or a frame it cannot decode:
\* it is done while the dispatcher's ctx is not cancelled
EndedOnError(j) == rl[j].pc = "done" /\ ~dCtxDone

ReadLoopLost == connected /\ \E j \in 1..Len(rl) : EndedOnError(j)

DisconnectSeen ==
  /\ hConnection = "unhealthy"
  /\ \E k \in 1..Len(nDisc) : nDisc[k] > 0

ConnectedAndReading == connected /\ \E j \in 1..Len(rl) : rl[j].pc # "done"

\* C14: whenever the read loop has ended on EOF or on a non-timeout read or
\* decode error while the connector is connected, the connector eventually
\* disconnects (on_disconnected has fired, connection health Unhealthy) and
\* after that is eventually connected again with a running read loop
C14_Recovers == ReadLoopLost ~> (DisconnectSeen /\ <>ConnectedAndReading)

\* a step that tears the transport down: Disconnect ran on an installed
\* connection (by the control handler, the write loop or a caller), callbacks
\* included, or a read loop returned on EOF or a read error
TeardownStep ==
  \/ conn # 0 /\ conn' = 0
  \/ \E j \in 1..Len(rl) : rl[j].pc = "read" /\ rl'[j].pc = "done"

NoStreamLeft == \A id \in IDs : streams[id] = 0

\* C15: when the transport is torn down (Disconnect, read-loop exit on error),
\* every stream still in the registry is closed by the teardown: none is left
\* registered and open, with a Read on it that waits
C15_TeardownClosesStreams == [][TeardownStep => NoStreamLeft']_vars

\* C16: the delivery of an inbound Data frame that runs concurrently with
\* CloseStream of the same id never sends on a closed FIFO: no goroutine
\* panics; the payload is enqueued before the close, or the delivery sees
\* the close signal and returns StreamNotFound
C16_NoSendOnClosed == ~panicked

\* CloseStream has run on the stream that is read (and returned nil)
StreamClosed == rd.s # 0 /\ inst[rd.s].closeCh > 0

RECURSIVE Flatten(_)
\* the chunks of q, concatenated
Flatten(q) == IF q = <<>> THEN <<>> ELSE Head(q) \o Flatten(Tail(q))

IsPrefix(a, b) == Len(a) <= Len(b) /\ a = SubSeq(b, 1, Len(a))

C19_AllBytesBeforeEOF == rd.err = "EOF" => rd.out = rd.enq

\* the read loops that were started and have not returned
ActiveLoops == {j \in 1..Len(rl) : rl[j].pc # "done"}

OneReadLoop == Cardinality(ActiveLoops) <= 1

\* a Start call returns in this step
StartStep ==
  (call' # call /\ call'.op = "Start") =>
     /\ call'.err = "ErrAlreadyRunning" <=> dRunning
     /\ Len(rl') = Len(rl) + (IF dRunning THEN 0 ELSE 1)
     /\ dRunning'

\* a Stop call returns in this step
StopStep == (call' # call /\ call'.op = "Stop") => ~dRunning'

\* C20: Start returns AlreadyRunning, spawning nothing, exactly when the
\* dispatcher is already running, and otherwise starts one read loop; after
\* Stop has returned IsRunning is false; at no time are two read loops active
C20_StartStop == OneReadLoop /\ [][StartStep /\ StopStep /\ OneReadLoop']_vars

\* no forwarder goroutine is between two of its steps and no read loop is
\* inside the stream handler
Quiescent ==
  /\ \A i \in 1..Len(fwd) : fwd[i].pc = "done"
  /\ \A j \in 1..Len(rl) : rl[j].pc \notin {"data", "end"}

StreamCountersAgree ==
  mStreams.active = mStreams.total - mStreams.completed - mStreams.failed

StreamCountersMonotone ==
  /\ mStreams'.total >= mStreams.total
  /\ mStreams'.completed >= mStreams.completed
  /\ mStreams'.failed >= mStreams.failed
  /\ mStreams'.active >= 0

\* C26: at every quiescent point streams_active = streams_total -
\* streams_completed - streams_failed, whatever mix of successful and failed
\* streams there was; total, completed and failed never decrease and
\* streams_active is never negative
C26_StreamCounters ==
  /\ Quiescent => StreamCountersAgree
  /\ [][(Quiescent' => StreamCountersAgree') /\ StreamCountersMonotone]_vars

\* the read loop j returns in this step
LoopEnds(j) == rl[j].pc # "done" /\ rl'[j].pc = "done"

\* the read loop j is still running after this step
LoopGoesOn(j) == rl'[j].pc # "done"

ReadStep(j) == j \in 1..Len(rl) /\ rl[j].pc \in {"read", "body"} /\ rl'[j] # rl[j]

FrameErrorCounted == fr'.errors = fr.errors + 1

\* C21: in the read loop a read timeout leaves the loop running and
\* disconnects nothing; a clean EOF ends the loop; an invalid frame or any
\* other read error is counted in frames_error and ends the loop; an error
\* returned by a handler is counted and the loop goes on
C21_ReadErrors ==
  [][\A j \in 1..MaxConns : ReadStep(j) =>
       /\ fr'.last = "timeout" =>
             LoopGoesOn(j) /\ UNCHANGED <<conn, connected, nDisc, sup>>
       /\ fr'.last = "EOF" => LoopEnds(j)
       /\ fr'.last \in {"error", "invalid", "body error", "parse error"} =>
             LoopEnds(j) /\ FrameErrorCounted
       /\ fr'.last = "handler error" => LoopGoesOn(j) /\ FrameErrorCounted]_vars

\* C22: a frame whose declared length is below HeaderSize or above
\* MaxFrameSize is rejected as invalid before a buffer of that size is
\* obtained, no handler is invoked for it and the read loop ends; every
\* frame handed to a handler has HeaderSize <= length <= MaxFrameSize
C22_LengthChecked ==
  /\ fr.buf = 0 \/ ~InvalidLength(fr.buf)
  /\ [][\A j \in 1..MaxConns : ReadStep(j) =>
          /\ fr'.buf = 0 \/ ~InvalidLength(fr'.buf)
          /\ (/\ rl[j].pc = "read"
              /\ fr'.last \notin {"EOF", "timeout", "error"}
              /\ InvalidLength(fr'.length)) =>
                /\ fr'.last = "invalid"
                /\ fr'.buf = 0
                /\ fr'.handled = fr.handled
                /\ LoopEnds(j)
          /\ fr'.handled # fr.handled =>
                HeaderSize <= fr.length /\ fr.length <= MaxFrameSize]_vars

\* a frame of declared length HeaderSize - 1 was rejected
C22_Witness ==
  /\ fr.last = "invalid"
  /\ fr.length = HeaderSize - 1
  /\ fr.handled > 0

\* C23: HandleAuthResponse returns InvalidFrame for a frame that is not Auth
\* or not a control frame, else AuthFailed without the Ack flag, else
\* InvalidFrame for a payload that is not parseable JSON, else AuthFailed
\* with the peer's message when success is false, else Ok; the stored agent
\* id changes only in the Ok case, to the agent_id of the response if any
C23_AuthResponse ==
  [][\A f \in AuthFrames : au'.f = f /\ au' # au =>
       /\ au'.res =
            (IF f.type # "Auth" \/ f.sid # StreamIDControl
             THEN AuthErr("ErrInvalidFrame", "")
             ELSE IF f.flags # "Ack" THEN AuthErr("ErrAuthFailed", "")
             ELSE IF f.payload.kind # "object" THEN AuthErr("ErrInvalidFrame", "")
             ELSE IF ~f.payload.success
                  THEN AuthErr("auth failed", f.payload.error)
             ELSE AuthErr("nil", ""))
       /\ au'.agentID =
            (IF au'.res.err = "nil" /\ f.payload.agent_id # ""
             THEN f.payload.agent_id ELSE au.agentID)]_vars

\* heartbeat loops that have not returned
BeatLoops == {l \in 1..Len(hb.loops) : hb.loops[l] # "done"}

\* frames passed to SendFrame by heartbeat loops
Beats == hb.sent + hb.failed

\* C25: however often Start is called at most one heartbeat loop runs; a
\* tick passes exactly one Heartbeat control frame (stream id 0, flags None,
\* empty payload) to SendFrame if and only if the connector reports connected
\* at that tick; once Stop has been called no heartbeat frame is passed on
C25_Heartbeat ==
  /\ Cardinality(BeatLoops) <= 1
  /\ [][/\ Cardinality(BeatLoops') <= 1
        /\ \A l \in 1..Len(hb.loops) :
              (hb.loops[l] = "wait" /\ hb'.loops[l] = "send") => connected
        /\ Beats' # Beats =>
              /\ Beats' = Beats + 1
              /\ hb'.f = Frame("Heartbeat", "None", StreamIDControl, 0)
              /\ ~hb.ctxDone]_vars

\* the last auth response was read in the running episode
InEpisode == conn # 0 /\ au.c = conn /\ connected

AuthFailed == InEpisode /\ au.res.err \notin {"none", "nil"}

Authenticated == InEpisode /\ au.res.err = "nil"

\* C24: when the auth response of the running episode is a failure the
\* episode ends: the transport is disconnected and the supervisor then dials
\* again; handling the failure starts no heartbeat
C24_AuthFailureEndsEpisode ==
  /\ [][(au' # au /\ au'.res.err # "nil") => hb' = hb]_vars
  /\ AuthFailed ~> (~connected /\ <>(sup.pc = "dial"))

\* C27: the connection check is Healthy only in an episode whose auth
\* response was a success; it turns Healthy when such a response is handled
\* and Unhealthy on every auth failure and every disconnect
C27_ConnectionHealth ==
  /\ hConnection = "healthy" => Authenticated
  /\ [][/\ (au' # au /\ au'.res.err = "nil") => hConnection' = "healthy"
        /\ (au' # au /\ au'.res.err # "nil") => hConnection' = "unhealthy"
        /\ (connected /\ ~connected') => hConnection' = "unhealthy"
        /\ hConnection' = "healthy" => Authenticated']_vars

\* the frames a step of the write loop of transport k writes out
FlushedBy(k) ==
  IF /\ k \in 1..Len(wl)
     /\ wl[k].pc = "run" /\ wl'[k].pc = "run"
     /\ tr[k] = "open"
     /\ wl'[k].buf = <<>>
     /\ \A m \in 1..Len(wl) : m # k => wl'[m] = wl[m]
  THEN IF Len(sendCh') < Len(sendCh) THEN Append(wl[k].buf, Head(sendCh))
       ELSE IF sendCh' = sendCh THEN wl[k].buf ELSE <<>>
  ELSE <<>>

\* the Close frame of the shutdown has left the send queue and the writer
CloseWritten ==
  /\ sd.pc # "run"
  /\ sd.err = "nil"
  /\ \A i \in 1..Len(sendCh) : sendCh[i].type # "Close"
  /\ \A k \in 1..Len(wl) : \A i \in 1..Len(wl[k].buf) : wl[k].buf[i].type # "Close"

\* the number of Close frames in the queue q
Closes(q) == Cardinality({n \in 1..Len(q) : q[n].type = "Close"})

\* the steps of the shutdown sequence, in the order of main
ShutdownOrder ==
  /\ (sd.pc = "run" /\ sd'.pc # "run") =>
        sd'.pc = "sleep" /\ sendCh' = Append(sendCh, CloseFrame)
  /\ (sd.pc = "sleep" /\ sd'.pc # "sleep") =>
        sd'.pc = "heartbeat stopped" /\ hb'.ctxDone
  /\ (sd.pc = "heartbeat stopped" /\ sd'.pc # sd.pc) =>
        sd'.pc = "dispatcher stopped" /\ dCtxDone' /\ ~dRunning'
  /\ (sd.pc = "dispatcher stopped" /\ sd'.pc # sd.pc) =>
        sd'.pc = "done" /\ ctxDone' /\ ~connected' /\ conn' = 0
  /\ sd.pc = "done" => sd'.pc = "done"

\* C28: on shutdown the agent enqueues exactly one Close control frame, then
\* stops the heartbeat, then the dispatcher, then disconnects; no frame is
\* written to the transport after the Close frame
C28_Shutdown ==
  [][/\ ShutdownOrder
     /\ sd.pc # "run" => Closes(sendCh') <= Closes(sendCh)
     /\ \A k \in 1..MaxConns :
           /\ CloseWritten => FlushedBy(k) = <<>>
           /\ \A i \in 1..Len(FlushedBy(k)) :
                 FlushedBy(k)[i].type = "Close" => i = Len(FlushedBy(k))]_vars

WriteTasksDone == \A k \in 1..Len(wl) : wl[k].pc = "done"

ReadTasksDone == \A j \in 1..Len(rl) : rl[j].pc = "done"

HeartbeatTasksDone == \A l \in 1..Len(hb.loops) : hb.loops[l] = "done"

\* C29: once Close() has been called on the connector, the write task, the
\* read task of the dispatcher and the heartbeat task all terminate
C29_CloseStopsTasks ==
  ctxDone ~> (WriteTasksDone /\ ReadTasksDone /\ HeartbeatTasksDone)

\* C30: once Close() has been called the connector is never connected: a
\* Connect or Reconnect called later returns the cancellation error, one that
\* was dialling when Close() ran installs no transport
C30_ClosedForGood ==
  /\ [](ctxDone => ~connected /\ conn = 0)
  /\ [][(ctxDone /\ sup.pc = "idle" /\ sup' # sup) =>
           sup' = [pc |-> "idle", err |-> "ctx"]]_vars

TrimSuffix(s, suffix) ==
  IF HasSuffix(s, suffix) THEN SubSeq(s, 1, Len(s) - Len(suffix)) ELSE s

\* base and path joined by exactly one '/', then '?' and the query if any
JoinedURL(baseURL, path, query) ==
  TrimSuffix(baseURL, <<"/">>) \o <<"/">> \o TrimPrefix(path, <<"/">>)
    \o (IF query # <<>> THEN <<"?">> \o query ELSE <<>>)

\* C31: the outbound URL is the base URL and the tunneled path joined by
\* exactly one '/', whether or not the base ends and the path starts with
\* one, followed by '?' and the query if and only if the query is not empty
C31_LocalURL == lu.url = JoinedURL(lu.base, lu.path, lu.query)

\* C35: the base URL chosen is a function of the Host header alone: the same
\* Host yields the same URL, which is that of a mapping whose subdomain is
\* the host or a prefix of it followed by '.', or the default URL when no
\* mapping matches or the Host is empty
C35_HostDeterminesURL ==
  /\ lu.host = lu.prevHost => lu.base = lu.prevBase
  /\ IF lu.host = <<>> \/ Matching(lu.host) = {}
     THEN lu.base = DefaultURL
     ELSE \E m \in Matching(lu.host) : lu.base = m[2]

\* the read loop j waits in the select of the delivery of a Data frame
Delivering(j) == j \in 1..Len(rl) /\ rl[j].pc = "data"

\* the FIFO of the stream that loop j delivers to is full, its close signal
\* has not fired
FifoFull(j) ==
  /\ Len(inst[rl[j].s].dataOut) = DataOutCap
  /\ inst[rl[j].s].closeCh = 0

\* C32: the inbound FIFO of a stream never holds more than its capacity; a
\* delivery that finds it full blocks the read loop until the consumer takes
\* a chunk or the close signal of the stream fires, and is then released:
\* the chunk is enqueued, or dropped when the stream was closed, and the read
\* loop goes on with the next frame
C32_InboundFifo ==
  [][/\ \A i \in 1..Len(inst') : Len(inst'[i].dataOut) <= DataOutCap
     /\ \A j \in 1..MaxConns : Delivering(j) =>
          /\ FifoFull(j) => rl'[j].pc = "data"
          /\ rl'[j].pc # "data" =>
               /\ rl'[j].pc \in {"top", "end"}
               /\ ~panicked'
               /\ \/ inst[rl[j].s].closeCh > 0 /\ inst' = inst
                  \/ inst'[rl[j].s].dataOut =
                       Append(inst[rl[j].s].dataOut, rl[j].f.payload)]_vars

\* C33: every frame that was decoded is handed to exactly one handler, the
\* control handler if and only if its stream id is 0 and the stream handler
\* otherwise; frames are handed over one at a time, each before the next one
\* is read
C33_Dispatch ==
  /\ [](fr.handled = fr.received)
  /\ [][fr'.received # fr.received =>
          /\ fr'.received = fr.received + 1
          /\ fr'.handled = fr.handled + 1
          /\ fr'.to \in {"control", "stream"}
          /\ fr'.to = "control" <=> fr'.sid = StreamIDControl
          /\ \A j \in 1..Len(rl) : rl'[j].pc # "body"]_vars

\* at least two frames were handed over, the last one to the stream handler
C33_Witness == fr.handled >= 2 /\ fr.to = "stream" /\ fr.sid # StreamIDControl

\* what the last call offered to the send queue was accepted or refused
Offered(f) ==
  /\ call'.err = SendFrameRes(connected, sendCh)
  /\ IF call'.err = "nil" THEN sendCh' = Append(sendCh, f)
     ELSE sendCh' = sendCh

\* C34: Write(p) offers exactly one Data frame with flags None, the id of the
\* stream and payload p to the send queue and returns len(p) when it is
\* accepted, 0 and the error of the send queue otherwise; Close offers exactly
\* one Data frame with EndStream and no payload; neither changes the
\* registry, the state of the stream or its close signal
C34_WriteClose ==
  [][/\ (call' # call /\ call'.op = "Write") =>
          /\ Offered(Frame("Data", "None", inst[call'.s].ID, call'.p))
          /\ call'.n = (IF call'.err = "nil" THEN Len(call'.p) ELSE 0)
          /\ UNCHANGED <<streams, inst>>
     /\ (call' # call /\ call'.op = "Close") =>
          /\ Offered(Frame("Data", "EndStream", inst[call'.s].ID, 0))
          /\ UNCHANGED <<streams, inst>>]_vars

\* a Write of two bytes was refused by a full send queue, on a stream that is
\* still in the registry
C34_Witness ==
  /\ call.op = "Write"
  /\ call.err = "send queue full"
  /\ Len(call.p) = 2
  /\ \E j \in 1..Len(sendCh) : sendCh[j].flags = "EndStream"
  /\ streams[call.id] = call.s

\* frames of type t among the frames of q
OfType(q, t) == {i \in 1..Len(q) : q[i].type = t}

\* C36: in every connected episode the Auth frame of the episode is the first
\* frame written to its transport: when a Data frame is written to the
\* installed transport, no Auth frame follows it in the same flush and none
\* is still waiting in the send queue
C36_AuthFirst ==
  [][\A k \in 1..Len(wl) : LET b == FlushedBy(k) IN
       (k = conn /\ OfType(b, "Data") # {}) =>
          /\ \A i \in OfType(b, "Data"), j \in OfType(b, "Auth") : j < i
          /\ OfType(sendCh', "Auth") = {}]_vars

\* the forwarder spawned for Stream instance i takes a step
ForwarderStep(i) == i \in 1..Len(fwd) /\ fwd'[i] # fwd[i]

\* the step puts a terminating frame into the send queue
TerminatingSent ==
  /\ Len(sendCh') > Len(sendCh)
  /\ sendCh'[Len(sendCh')].flags \in {"EndStream", "Error"}

\* C37: a forwarder closes only the Stream instance it was spawned for, and
\* puts no terminating frame into the send queue while its id denotes
\* another instance: a stream opened later under the same id is left alone
C37_OwnStream ==
  [][\A i \in 1..Len(fwd) : ForwarderStep(i) =>
       /\ \A m \in 1..Len(inst) : m # i => inst'[m] = inst[m]
       /\ TerminatingSent => streams[fwd[i].id] \in {0, i}]_vars

\* C38: whenever IsRunning() is true a read loop is active: running is not
\* left set by a read loop that returned on EOF or on an error, nor by a
\* Start after Stop whose loop returns at once
C38_RunningReads == dRunning => \E j \in 1..Len(rl) : rl[j].pc # "done"

\* C39: in every connected episode, also one that follows a reconnect, a
\* Heartbeat frame enters the send queue only after an auth response of that
\* episode has been handled (and the heartbeat is started by successful
\* responses only)
C39_BeatAfterAuth == [][hb'.sent # hb.sent => InEpisode]_vars

\* C40: the write loop started for transport k tears down no transport but
\* its own: when it returns while another transport is installed, that
\* transport stays installed and open and on_disconnected does not fire
C40_OwnTransport ==
  [][\A k \in 1..Len(wl) :
       (wl[k].pc = "run" /\ wl'[k].pc = "done" /\ conn # k) =>
          /\ conn' = conn
          /\ connected' = connected
          /\ tr' = tr
          /\ nDisc' = nDisc]_vars

====
